---- MODULE Spec2Model ----
(***************************************************************************)
(* Session orchestration, escalation gate and six-stage pipeline of the    *)
(* legal intake system (agents/orchestrator.py, agents/handoff_agent.py,   *)
(* agents/intake_agent.py, agents/spanish_agent.py, agents/lead_scorer.py, *)
(* agents/followup_agent.py, agents/research_agent.py,                     *)
(* agents/document_collector.py, agents/scheduler_agent.py).               *)
(*                                                                         *)
(* Text is a sequence of one-character strings, so that Python's           *)
(* str.lower(), concatenation and the substring test `t in s` are computed *)
(* character by character.  A JSON value is a tagged record ([j |-> ...]). *)
(* A Python exception that leaves a method is an outcome with              *)
(* raised = TRUE; the state it leaves behind is the state at the raise.    *)
(***************************************************************************)
EXTENDS Integers, Sequences, FiniteSets, TLC

VARIABLES
    sessions,               \* LegalAgentOrchestrator.sessions: id -> session record
    intake_conversations,   \* IntakeAgent.conversations: id -> list of turns
    result,                 \* what the last call returned or raised, with its arguments
    trace,                  \* the Role invocations made by the last call, in order
    ops,                    \* number of calls made so far
    gate,                   \* one application of HandoffAgent.process to free inputs
    classifier,             \* one application of _detect_language to a free text
    requests,               \* request handlers running on the server's threads
    aliased,                \* ids whose stored session's conversation is the intake Role's list
    pipe,                   \* AgentOrchestrator.agents and one run_pipeline call, step by step
    scheduler               \* SchedulerAgent.available_slots and its last call

vars == <<sessions, intake_conversations, result, trace, ops, gate, classifier,
          requests, aliased, pipe, scheduler>>

----------------------------------------------------------------------------
\* Bounds of the model.
MaxOps == 3
MaxHistory == 2
MaxWords == 2
MaxPipeline == 3
MaxRegistrations == 1
MaxDays == 1

----------------------------------------------------------------------------
\* Fixed text of the program.

\* handoff_agent.py:43-53, in list order
immediate_escalation_triggers ==
    << <<"c","u","r","r","e","n","t","l","y"," ","i","n"," ","d","a","n","g","e","r">>,   \* 'currently in danger'
       <<"b","e","i","n","g"," ","t","h","r","e","a","t","e","n","e","d">>,   \* 'being threatened'
       <<"s","u","i","c","i","d","a","l">>,   \* 'suicidal'
       <<"e","m","e","r","g","e","n","c","y">>,   \* 'emergency'
       <<"a","r","r","e","s","t","e","d">>,   \* 'arrested'
       <<"i","n"," ","c","u","s","t","o","d","y">>,   \* 'in custody'
       <<"c","h","i","l","d"," ","i","n"," ","d","a","n","g","e","r">>,   \* 'child in danger'
       <<"d","o","m","e","s","t","i","c"," ","v","i","o","l","e","n","c","e">>,   \* 'domestic violence'
       <<"a","c","t","i","v","e"," ","c","r","i","m","e">> >>   \* 'active crime'

\* handoff_agent.py:145
call_911_triggers ==
    << <<"c","u","r","r","e","n","t","l","y"," ","i","n"," ","d","a","n","g","e","r">>,   \* 'currently in danger'
       <<"c","h","i","l","d"," ","i","n"," ","d","a","n","g","e","r">>,   \* 'child in danger'
       <<"d","o","m","e","s","t","i","c"," ","v","i","o","l","e","n","c","e">>,   \* 'domestic violence'
       <<"a","c","t","i","v","e"," ","c","r","i","m","e">> >>   \* 'active crime'

\* orchestrator.py:304-305
spanish_words ==
    << <<"h","o","l","a">>,   \* 'hola'
       <<"n","e","c","e","s","i","t","o">>,   \* 'necesito'
       <<"a","y","u","d","a">>,   \* 'ayuda'
       <<"a","c","c","i","d","e","n","t","e">>,   \* 'accidente'
       <<"a","b","o","g","a","d","o">>,   \* 'abogado'
       <<"t","e","n","g","o">>,   \* 'tengo'
       <<"p","o","r"," ","f","a","v","o","r">>,   \* 'por favor'
       <<"g","r","a","c","i","a","s">>,   \* 'gracias'
       <<"b","u","e","n","a","s">>,   \* 'buenas'
       <<"d","í","a","s">> >>   \* 'días'

\* handoff_agent.py:159-167
priority_indicators ==
    << <<"c","o","m","m","e","r","c","i","a","l"," ","v","e","h","i","c","l","e">>,   \* 'commercial vehicle'
       <<"t","r","u","c","k","i","n","g">>,   \* 'trucking'
       <<"s","e","m","i">>,   \* 'semi'
       <<"1","8","-","w","h","e","e","l","e","r">>,   \* '18-wheeler'
       <<"w","r","o","n","g","f","u","l"," ","d","e","a","t","h">>,   \* 'wrongful death'
       <<"d","e","a","t","h">>,   \* 'death'
       <<"f","a","t","a","l","i","t","y">>,   \* 'fatality'
       <<"c","a","t","a","s","t","r","o","p","h","i","c">>,   \* 'catastrophic'
       <<"p","a","r","a","l","y","s","i","s">>,   \* 'paralysis'
       <<"b","r","a","i","n"," ","i","n","j","u","r","y">>,   \* 'brain injury'
       <<"a","m","p","u","t","a","t","i","o","n">>,   \* 'amputation'
       <<"m","e","d","i","c","a","l"," ","m","a","l","p","r","a","c","t","i","c","e">>,   \* 'medical malpractice'
       <<"s","u","r","g","i","c","a","l"," ","e","r","r","o","r">>,   \* 'surgical error'
       <<"m","i","n","o","r">>,   \* 'minor'
       <<"c","h","i","l","d">>,   \* 'child'
       <<"c","h","i","l","d","r","e","n">>,   \* 'children'
       <<"g","o","v","e","r","n","m","e","n","t">>,   \* 'government'
       <<"c","i","t","y">>,   \* 'city'
       <<"s","t","a","t","e">>,   \* 'state'
       <<"f","e","d","e","r","a","l">>,   \* 'federal'
       <<"m","e","d","i","a">>,   \* 'media'
       <<"n","e","w","s">>,   \* 'news'
       <<"h","i","g","h"," ","p","r","o","f","i","l","e">> >>   \* 'high profile'

msg_hit == <<"I"," ","w","a","s"," ","h","i","t">>   \* 'I was hit'
msg_hola == <<"H","o","l","a",","," ","n","e","c","e","s","i","t","o"," ","a","y","u","d","a">>   \* 'Hola, necesito ayuda'
msg_suicidal == <<"I"," ","f","e","e","l"," ","S","U","I","C","I","D","A","L">>   \* 'I feel SUICIDAL'
msg_being == <<"I"," ","w","a","s"," ","b","e","i","n","g">>   \* 'I was being'
msg_threatened == <<"t","h","r","e","a","t","e","n","e","d"," ","b","y"," ","h","i","m">>   \* 'threatened by him'
msg_two == <<"d","o","m","e","s","t","i","c"," ","v","i","o","l","e","n","c","e"," ","E","m","e","r","g","e","n","c","y">>   \* 'domestic violence Emergency'
msg_child == <<"M","y"," ","c","h","i","l","d"," ","i","n"," ","d","a","n","g","e","r">>  \* 'My child in danger'
msg_danger == <<"I"," ","a","m"," ","i","n"," ","d","a","n","g","e","r">>  \* 'I am in danger'
reply_ok == <<"W","e","r","e"," ","y","o","u"," ","h","u","r","t","?">>   \* 'Were you hurt?'
err_timeout == <<"t","i","m","e","o","u","t">>  \* str(e) of a failed generation call: 'timeout'
reply_trigger == <<"I","s"," ","t","h","i","s"," ","a","n"," ","e","m","e","r","g","e","n","c","y","?">>   \* 'Is this an emergency?'
ct_trucking == <<"T","r","u","c","k","i","n","g"," ","a","c","c","i","d","e","n","t">>   \* 'Trucking accident'
ct_slip == <<"S","l","i","p"," ","a","n","d"," ","f","a","l","l">>   \* 'Slip and fall'
kf_liability == <<"C","l","e","a","r"," ","l","i","a","b","i","l","i","t","y">>   \* 'Clear liability'
kf_minor == <<"M","i","n","o","r"," ","i","n","v","o","l","v","e","d">>   \* 'Minor involved'
rating_HOT == <<"H","O","T">>   \* 'HOT'
rating_WARM == <<"W","A","R","M">>   \* 'WARM'
rating_COLD == <<"C","O","L","D">>   \* 'COLD'
val_high == <<"h","i","g","h">>   \* 'high'
val_low == <<"l","o","w">>   \* 'low'
urg_24h == <<"2","4","h">>   \* '24h'
act_call == <<"C","a","l","l"," ","t","o","d","a","y">>   \* 'Call today'
flag_late == <<"L","a","t","e"," ","r","e","p","o","r","t">>   \* 'Late report'

Messages == {msg_hit, msg_hola, msg_suicidal}

\* What one call of the generation service gives: a text, or an exception
\* whose str() is the text.
Generated(text) == [ok |-> TRUE, text |-> text]
Failed(text) == [ok |-> FALSE, text |-> text]
Generations == {Generated(reply_ok), Failed(err_timeout)}

\* BaseAgent.call_claude: the text, or f"Error: {str(e)}" when the call raises
call_claude(generation) ==
    IF generation.ok THEN generation.text
    ELSE <<"E","r","r","o","r",":"," ">> \o generation.text

Replies == {call_claude(g) : g \in Generations}
SessionIds == {"s1", "s2"}

----------------------------------------------------------------------------
\* Python str operations.

UpperChars == <<"A","B","C","D","E","F","G","H","I","J","K","L","M","N","O","P","Q","R","S","T","U","V","W","X","Y","Z","Í">>
LowerChars == <<"a","b","c","d","e","f","g","h","i","j","k","l","m","n","o","p","q","r","s","t","u","v","w","x","y","z","í">>

\* One character of str.lower().
lower_char(c) ==
    IF \E i \in 1..Len(UpperChars) : UpperChars[i] = c
    THEN LowerChars[CHOOSE i \in 1..Len(UpperChars) : UpperChars[i] = c]
    ELSE c

\* str.lower()
lower(s) == [i \in 1..Len(s) |-> lower_char(s[i])]

\* The Python test `pat in text` on two strings.
Contains(pat, text) ==
    \E i \in 1..(Len(text) - Len(pat) + 1) : \A k \in 1..Len(pat) : text[i + k - 1] = pat[k]

\* `x in lst` for a list of strings.
InList(x, lst) == \E i \in 1..Len(lst) : lst[i] = x

----------------------------------------------------------------------------
\* JSON values and Python dict access.

JMissing == [j |-> "missing"]                 \* the key is not in the dict
JNull == [j |-> "null"]                       \* None
JStr(s) == [j |-> "str", s |-> s]
JList(items) == [j |-> "list", items |-> items]    \* a list of strings
\* A dict with the keys the program reads; err = it is the scorer's fallback
\* {'error': ..., 'raw': ...}.
JObj(f, err) == [j |-> "obj", f |-> f, err |-> err]

ScoreKeys == {"rating", "case_type", "key_factors", "estimated_value",
              "urgency", "recommended_action", "red_flags"}

\* d.get(key, default) on a dict d
DictGet(d, key, default) == IF d.f[key].j = "missing" THEN default ELSE d.f[key]

\* v == s for a Python value v and a string literal s
IsStr(v, s) == v.j = "str" /\ v.s = s

\* A returned value, or an exception leaving the method.
Ret(v) == [raised |-> FALSE, exc |-> "none", value |-> v]
Raise(e) == [raised |-> TRUE, exc |-> e, value |-> JNull]

----------------------------------------------------------------------------
\* LegalAgentOrchestrator._detect_language

spanish_threshold == 2

_detect_language_counts_occurrences(text) ==
    LET text_lower == lower(text)
        occurrences == {<<i, p>> \in (1..Len(spanish_words)) \X (1..Len(text_lower)) :
                           /\ p + Len(spanish_words[i]) - 1 <= Len(text_lower)
                           /\ SubSeq(text_lower, p, p + Len(spanish_words[i]) - 1)
                                 = spanish_words[i]}
    IN  IF Cardinality(occurrences) >= spanish_threshold THEN "spanish" ELSE "english"

_detect_language(text) ==
    LET text_lower == lower(text)
        spanish_count == Cardinality({i \in 1..Len(spanish_words) :
                                         Contains(spanish_words[i], text_lower)})
    IN  IF spanish_count >= spanish_threshold THEN "spanish" ELSE "english"

----------------------------------------------------------------------------
\* HandoffAgent

Turn(role, content) == [role |-> role, content |-> content]

\* The decision dict.  Keys a decision does not have are "absent"; trigger is
\* the phrase interpolated into 'reason' and 'internal_notes'.
NoEscalation ==
    [escalation_needed |-> FALSE, escalation_type |-> "absent", reason |-> "absent",
     trigger |-> <<>>, route_to |-> "absent", client_message |-> "absent",
     urgency |-> "absent", call_911 |-> "absent"]

\* handoff_agent.py:145
call_911(trigger) == IF InList(trigger, call_911_triggers) THEN "True" ELSE "False"

\* handoff_agent.py:133-146
ImmediateDecision(trigger) ==
    [escalation_needed |-> TRUE, escalation_type |-> "immediate", reason |-> "Detected",
     trigger |-> trigger, route_to |-> "intake_coordinator",
     client_message |-> "serious_situation_script",
     urgency |-> "immediate", call_911 |-> call_911(trigger)]

RECURSIVE user_text_all_roles(_)
user_text_all_roles(conversation) ==
    IF conversation = <<>> THEN <<>>
    ELSE <<" ">> \o lower(Head(conversation).content)
            \o user_text_all_roles(Tail(conversation))

\* handoff_agent.py:125-127: what the loop appends to the scanned text
RECURSIVE user_text(_)
user_text(conversation) ==
    IF conversation = <<>> THEN <<>>
    ELSE (IF Head(conversation).role = "user"
          THEN <<" ">> \o lower(Head(conversation).content)
          ELSE <<>>) \o user_text(Tail(conversation))

all_text_message_only(current_message, conversation) == lower(current_message)

all_text_no_lower(current_message, conversation) ==
    current_message \o user_text(conversation)

\* handoff_agent.py:124-127: the scanned text
all_text(current_message, conversation) == lower(current_message) \o user_text(conversation)

\* The trigger the scan would report if it went by position in the text.
first_trigger_by_position(text) ==
    LET hits == {i \in 1..Len(immediate_escalation_triggers) :
                    Contains(immediate_escalation_triggers[i], text)}
        pos(i) == CHOOSE p \in 1..Len(text) :
                    /\ SubSeq(text, p, p + Len(immediate_escalation_triggers[i]) - 1)
                          = immediate_escalation_triggers[i]
                    /\ \A q \in 1..(p - 1) :
                          SubSeq(text, q, q + Len(immediate_escalation_triggers[i]) - 1)
                             # immediate_escalation_triggers[i]
    IN  IF hits = {} THEN 0
        ELSE CHOOSE i \in hits : \A k \in hits : pos(i) <= pos(k)

\* handoff_agent.py:129-130: index of the first trigger, in list order, that
\* occurs in the text; 0 when the loop finds none.
first_trigger(text) ==
    LET hits == {i \in 1..Len(immediate_escalation_triggers) :
                    Contains(immediate_escalation_triggers[i], text)}
    IN  IF hits = {} THEN 0
        ELSE CHOOSE i \in hits : \A k \in hits : i <= k

\* HandoffAgent._check_immediate_escalation
_check_immediate_escalation(current_message, conversation) ==
    LET i == first_trigger(all_text(current_message, conversation))
    IN  IF i = 0 THEN NoEscalation
        ELSE ImmediateDecision(immediate_escalation_triggers[i])

RoutingDecision(needed, type, reason, role, message, urgency) ==
    [escalation_needed |-> needed, escalation_type |-> type, reason |-> reason,
     trigger |-> <<>>, route_to |-> role, client_message |-> message,
     urgency |-> urgency, call_911 |-> "absent"]

\* [f.lower() for f in key_factors], for a list of strings or for a string
\* (iterated character by character)
lower_items(key_factors) ==
    IF key_factors.j = "list"
    THEN [i \in 1..Len(key_factors.items) |-> lower(key_factors.items[i])]
    ELSE [i \in 1..Len(key_factors.s) |-> <<lower_char(key_factors.s[i])>>]

\* HandoffAgent._determine_routing (client_info and conversation are not read)
_determine_routing(lead_score) ==
    IF lead_score.j # "obj" THEN Raise("AttributeError")          \* None.get
    ELSE
    LET rating == DictGet(lead_score, "rating", JStr(rating_WARM))
        case_type_v == DictGet(lead_score, "case_type", JStr(<<>>))
        estimated_value == DictGet(lead_score, "estimated_value", JStr(<<"u","n","k","n","o","w","n">>))
        key_factors_v == DictGet(lead_score, "key_factors", JList(<<>>))
    IN  IF case_type_v.j # "str" THEN Raise("AttributeError")     \* .lower()
        ELSE IF key_factors_v.j \notin {"list", "str"} THEN Raise("TypeError")
        ELSE
        LET case_type == lower(case_type_v.s)
            key_factors == lower_items(key_factors_v)
            is_priority ==
                \E n \in 1..Len(priority_indicators) :
                    \/ Contains(priority_indicators[n], case_type)
                    \/ \E k \in 1..Len(key_factors) :
                          Contains(priority_indicators[n], key_factors[k])
        IN  IF IsStr(rating, rating_HOT) /\ (is_priority \/ IsStr(estimated_value, val_high))
            THEN Ret(RoutingDecision(TRUE, "priority", "High-value", "senior_partner",
                                     "senior_attorney_message", "same_day"))
            ELSE IF IsStr(rating, rating_HOT)
            THEN Ret(RoutingDecision(TRUE, "standard", "HOT lead", "pi_associate",
                                     "attorney_will_call_message", "same_day"))
            ELSE IF IsStr(rating, rating_WARM)
            THEN Ret(RoutingDecision(TRUE, "standard", "Warm lead", "intake_coordinator",
                                     "coordinator_follow_up_message", "24_hours"))
            ELSE Ret(RoutingDecision(FALSE, "none", "May not meet criteria", "None",
                                     "may_not_handle_message", "standard"))

\* HandoffAgent.process
HandoffAgent_process(current_message, conversation, lead_score) ==
    LET immediate_check == _check_immediate_escalation(current_message, conversation)
    IN  IF immediate_check.escalation_needed THEN Ret(immediate_check)
        ELSE _determine_routing(lead_score)

----------------------------------------------------------------------------
\* The generation service (BaseAgent.call_claude) and the parsing of its text.
\*
\* A text the service returns is a sequence of chunks:
\*   Error     the string call_claude builds when the call fails ("Error: ...")
\*   Prose     words that are not JSON
\*   FenceJson the marker ```json
\*   Fence     the marker ```
\*   Doc(v)    a JSON document whose value is v

Error == [c |-> "error"]
Prose == [c |-> "prose"]
FenceJson == [c |-> "fence_json"]
Fence == [c |-> "fence"]
Doc(v) == [c |-> "doc", value |-> v]

\* "```" in chunk ("```json" starts with "```")
IsFence(chunk) == chunk.c \in {"fence", "fence_json"}

\* s.split("```")[0]
RECURSIVE before_fence(_)
before_fence(text) ==
    IF text = <<>> \/ IsFence(Head(text)) THEN <<>>
    ELSE <<Head(text)>> \o before_fence(Tail(text))

IsFenceJson(chunk) == chunk.c = "fence_json"

\* s.split("```json")[1] up to the end of s: what follows the first ```json
after_fence_json(text) ==
    LET i == CHOOSE n \in 1..Len(text) :
                 IsFenceJson(text[n]) /\ \A k \in 1..(n - 1) : ~IsFenceJson(text[k])
    IN  SubSeq(text, i + 1, Len(text))

\* s.split("```")[1] up to the end of s: what follows the first ```
after_fence(text) ==
    LET i == CHOOSE n \in 1..Len(text) :
                 IsFence(text[n]) /\ \A k \in 1..(n - 1) : ~IsFence(text[k])
    IN  SubSeq(text, i + 1, Len(text))

\* lead_scorer.py:91-94 (the same lines in the other Roles)
extract_fenced(text) ==
    IF \E i \in 1..Len(text) : IsFenceJson(text[i])
    THEN before_fence(after_fence_json(text))
    ELSE IF \E i \in 1..Len(text) : IsFence(text[i])
    THEN before_fence(after_fence(text))
    ELSE text

\* json.loads(response.strip()): succeeds exactly on one JSON document
json_loads(text) ==
    IF Len(text) = 1 /\ text[1].c = "doc"
    THEN [ok |-> TRUE, value |-> text[1].value]
    ELSE [ok |-> FALSE, value |-> JNull]

parse_response(text) == json_loads(extract_fenced(text))

\* The single-field dict a Role wraps unparsed text in.
JFallback == [j |-> "fallback"]

AllMissing == [k \in ScoreKeys |-> JMissing]

Score(rating, case_type, key_factors, estimated_value, urgency, recommended_action, red_flags) ==
    JObj([rating |-> rating, case_type |-> case_type, key_factors |-> key_factors,
          estimated_value |-> estimated_value, urgency |-> urgency,
          recommended_action |-> recommended_action, red_flags |-> red_flags], FALSE)

\* 'Error: timeout'
text_error == <<Error>>
\* 'I could not rate this lead.'
text_prose == <<Prose>>
\* '[]'
text_list == <<Doc(JList(<<>>))>>
\* '{}'
text_empty == <<Doc(JObj(AllMissing, FALSE))>>
\* '{"rating": null, "case_type": null, "key_factors": null}'
text_null_fields ==
    <<Doc(Score(JNull, JNull, JNull, JMissing, JMissing, JMissing, JMissing))>>
\* 'Here is the score:\n```json\n{"rating": "HOT", "case_type":
\*   "Trucking accident", "key_factors": ["Clear liability"], "estimated_value":
\*   "high", "urgency": "24h", "recommended_action": "Call today",
\*   "red_flags": []}\n```'
text_hot ==
    <<Prose, FenceJson,
      Doc(Score(JStr(rating_HOT), JStr(ct_trucking), JList(<<kf_liability>>),
                JStr(val_high), JStr(urg_24h), JStr(act_call), JList(<<>>))),
      Fence>>
\* '{"rating": "WARM", "case_type": "Slip and fall", "key_factors": ["Clear
\*   liability"], "estimated_value": "low", "urgency": "24h",
\*   "recommended_action": "Call today", "red_flags": ["Late report"]}'
text_warm ==
    <<Doc(Score(JStr(rating_WARM), JStr(ct_slip), JList(<<kf_liability>>),
                JStr(val_low), JStr(urg_24h), JStr(act_call), JList(<<flag_late>>)))>>
\* the WARM object with "rating": "COLD"
text_cold ==
    <<Doc(Score(JStr(rating_COLD), JStr(ct_slip), JList(<<kf_liability>>),
                JStr(val_low), JStr(urg_24h), JStr(act_call), JList(<<flag_late>>)))>>
\* the HOT object with "urgency": null, between two bare ``` fences
text_hot_null_urgency ==
    <<Fence,
      Doc(Score(JStr(rating_HOT), JStr(ct_trucking), JList(<<kf_liability>>),
                JStr(val_high), JNull, JStr(act_call), JList(<<>>))),
      Fence>>
\* 'Here it is:\n```json\n{"note": "see file"}\n```\nAnything else?'
text_fenced_object ==
    <<Prose, FenceJson, Doc(JObj(AllMissing, FALSE)), Fence, Prose>>

ScoreTexts == {text_error, text_list, text_empty, text_null_fields,
               text_hot, text_warm, text_cold, text_hot_null_urgency}

\* The texts returned to the research, follow-up and document Roles of one run.
AuxTexts == {<<text_fenced_object, text_prose, text_list>>}

----------------------------------------------------------------------------
\* Sessions

NoneDecision ==
    [escalation_needed |-> FALSE, escalation_type |-> "None", reason |-> "None",
     trigger |-> <<>>, route_to |-> "None", client_message |-> "None",
     urgency |-> "None", call_911 |-> "None"]

\* orchestrator.py:88-101.  started_at (a wall-clock string nothing reads),
\* client_info ({} throughout), follow_ups and documents['received'] ([]
\* throughout) are left out; follow_up_sequence = <<>> stands for the absent key.
NewSession(language) ==
    [language |-> language,
     status |-> "active",
     conversation |-> <<>>,
     lead_score |-> JNull,
     research |-> JNull,
     documents_requested |-> JList(<<>>),
     appointments |-> <<>>,
     follow_up_sequence |-> <<>>,
     handoff |-> NoneDecision,
     agents_used |-> <<IF language = "english" THEN "intake" ELSE "spanish">>]

\* One Role invocation: the Role, the lead_score and the channel it was handed
\* (JMissing, "absent" when the request has none) and the session record at
\* the moment of the call.
Call(role, lead_score, channel, session) ==
    [role |-> role, lead_score |-> lead_score, channel |-> channel, session |-> session]

NoSession == [language |-> "none"]

Put_every_key(store, id, value) == [i \in (DOMAIN store) \cup {id} |-> value]

\* self.sessions[id] = value, self.conversations[id] = value
Put(store, id, value) ==
    [i \in (DOMAIN store) \cup {id} |-> IF i = id THEN value ELSE store[i]]

\* The dict complete_intake accumulates in `results`; keys = the keys set so far.
EmptyResults ==
    [keys |-> {}, lead_score |-> JMissing, research |-> JMissing,
     handoff |-> NoneDecision, sequence |-> <<>>, first_message |-> JMissing,
     documents |-> JMissing, scheduling |-> "absent"]

\* The dict get_stats returns; -1 and <<>> before any get_stats call.
NoStats ==
    [total_sessions |-> -1, active_sessions |-> -1, completed_sessions |-> -1,
     hot |-> -1, warm |-> -1, cold |-> -1, agents_online |-> -1, agent_names |-> <<>>]

\* The value a call returns; keys a result does not have are "absent" / <<>> / -1.
Returned ==
    [response |-> <<>>, session_id |-> "absent", language |-> "absent",
     agent |-> "absent", message_count |-> -1, escalated |-> FALSE,
     urgency |-> "absent", error |-> "absent", pipeline |-> EmptyResults,
     stats |-> NoStats]

\* What a call leaves behind: the store, the intake Role's histories, the Role
\* invocations it made, and what it returned or raised.
Outcome(store, intake, calls, raised, exc, value) ==
    [sessions |-> store, intake |-> intake, trace |-> calls,
     raised |-> raised, exc |-> exc, value |-> value]

----------------------------------------------------------------------------
\* Request handlers and the objects they share
\*
\* app.py:295 serves requests on threads and nothing takes a lock, so a
\* handler is a sequence of steps: it runs up to the generation call of its
\* Role, waits there while other handlers run, and goes on when the call
\* returns.  Python hands out references: a handler keeps the session dict it
\* looked up even after start_session has stored another one under the id, and
\* an English session's conversation is the intake Role's own list
\* (orchestrator.py:117, :165), so an append to that list shows in the session.

\* The generation calls a handler waits in: that of a conversational Role,
\* and those of the scorer, the research, follow-up and document Roles of a
\* pipeline run (base_agent.py:35-42).
GenerationCalls == {"in_role", "in_scorer", "in_research", "in_followup", "in_documents"}

\* A request handler that has not been entered.  pc is where the handler is
\* (idle, one of the generation calls, done); starts says that the body of
\* start_session is what runs; language is the Role chosen; before and
\* intake_before are the store and the histories when it was entered; trace
\* the Role invocations made so far; generated the texts the generation
\* service has returned to it so far; seen the message list its Role call was
\* made with; results and sequence the locals of a pipeline run; during the
\* handlers that were suspended when it was entered; detached says that the
\* session dict it holds is no longer the stored one, session is then that
\* dict, and own_list says that the dict's conversation is the intake Role's
\* list.
NoRequest ==
    [pc |-> "idle", op |-> "none", id |-> "none", message |-> <<>>,
     starts |-> FALSE, language |-> "none",
     before |-> <<>>, intake_before |-> <<>>, trace |-> <<>>, seen |-> <<>>,
     generated |-> <<>>, results |-> EmptyResults, sequence |-> <<>>,
     response |-> <<>>, raised |-> FALSE, exc |-> "none", escalated |-> FALSE,
     handoff |-> NoneDecision, during |-> {},
     detached |-> FALSE, session |-> NoSession, own_list |-> FALSE]

NoRequests == [t \in {"t1", "t2"} |-> NoRequest]

\* The objects of the program: the store, the intake Role's histories, the ids
\* whose stored session has the Role's list as its conversation, the handlers.
Heap(store, intake, shared, handlers) ==
    [sessions |-> store, intake |-> intake, aliased |-> shared, requests |-> handlers]

\* A handler step that ends suspended in a generation call.
Waiting(h) ==
    [heap |-> h, done |-> FALSE, trace |-> <<>>, raised |-> FALSE, exc |-> "none",
     value |-> Returned]

\* A handler step that ends with the method returning or raising.
Finished(h, calls, raised, exc, value) ==
    [heap |-> h, done |-> TRUE, trace |-> calls, raised |-> raised, exc |-> exc,
     value |-> value]

\* The handler of thread t as it is entered.
Entering(h, t, op, id, message) ==
    [NoRequest EXCEPT
        !.op = op, !.id = id, !.message = message,
        !.before = h.sessions, !.intake_before = h.intake,
        !.during = {u \in DOMAIN h.requests :
                        h.requests[u].pc \in GenerationCalls}]

\* intake_agent.py:69-77, :84-87: self.conversations[id].append(...), on the
\* list created at the first use of the id.  The list is one object: the
\* stored session and the detached dicts that hold it show the append.
history_append(h, id, turns) ==
    LET history == (IF id \in DOMAIN h.intake THEN h.intake[id] ELSE <<>>) \o turns
    IN  [h EXCEPT
           !.intake = Put(h.intake, id, history),
           !.sessions = [i \in DOMAIN h.sessions |->
                            IF i = id /\ id \in h.aliased
                            THEN [h.sessions[i] EXCEPT !.conversation = history]
                            ELSE h.sessions[i]],
           !.requests = [t \in DOMAIN h.requests |->
                            IF /\ h.requests[t].id = id
                               /\ h.requests[t].detached
                               /\ h.requests[t].own_list
                            THEN [h.requests[t] EXCEPT !.session.conversation = history]
                            ELSE h.requests[t]]]

\* orchestrator.py:88: self.sessions[id] = {...}.  A suspended handler of
\* continue_session or complete_intake on the id keeps the dict it looked up.
session_replace(h, id, created) ==
    [h EXCEPT
       !.sessions = Put(h.sessions, id, created),
       !.aliased = h.aliased \ {id},
       !.requests = [t \in DOMAIN h.requests |->
                        LET r == h.requests[t]
                        IN  IF /\ r.pc \in GenerationCalls
                               /\ r.id = id
                               /\ ~r.starts
                               /\ ~r.detached
                            THEN [r EXCEPT !.detached = TRUE,
                                           !.session = h.sessions[id],
                                           !.own_list = id \in h.aliased]
                            ELSE r]]

\* The session dict the handler of thread t holds in its local `session`.
local_session(h, t) ==
    IF h.requests[t].detached THEN h.requests[t].session
    ELSE h.sessions[h.requests[t].id]

----------------------------------------------------------------------------
\* Conversational Roles

IntakeAgent_reply_drops_error(response) ==
    IF response \in {call_claude(Failed(err_timeout))} THEN <<>>
    ELSE <<Turn("assistant", response)>>

\* intake_agent.py:84-87: whatever call_claude returned is appended as the
\* assistant turn, the "Error: ..." text of a failed call included.
IntakeAgent_reply(response) == <<Turn("assistant", response)>>

----------------------------------------------------------------------------
\* LegalAgentOrchestrator.start_session

\* orchestrator.py:82-112 with intake_agent.py:66-79 and
\* spanish_agent.py:61-67: up to the Role's generation call.  The new session
\* is stored with an empty conversation; the intake Role has appended the user
\* turn to its history, the Spanish Role keeps no history.
start_session_enter(h, t, op, session_id, initial_message) ==
    LET language == _detect_language(initial_message)
        created == NewSession(language)
        stored == session_replace(h, session_id, created)
        asked == IF language = "spanish" THEN stored
                 ELSE history_append(stored, session_id,
                                     <<Turn("user", initial_message)>>)
    IN  Waiting([asked EXCEPT !.requests[t] =
            [Entering(h, t, op, session_id, initial_message) EXCEPT
                !.pc = "in_role", !.starts = TRUE, !.language = language,
                !.trace = <<Call(IF language = "spanish" THEN "spanish" ELSE "intake",
                                 JMissing, "absent", created)>>,
                !.seen = IF language = "spanish"
                         THEN <<Turn("user", initial_message)>>
                         ELSE asked.intake[session_id]]])

\* orchestrator.py:108-126 with intake_agent.py:81-101: the generation call
\* has returned.  The conversation is written to the session stored under the
\* id at that moment (self.sessions[session_id][...]).
start_session_resume(h, t, response) ==
    LET r == h.requests[t]
        replied ==
            IF r.language = "spanish"
            THEN [h EXCEPT !.sessions[r.id].conversation =
                                <<Turn("user", r.message), Turn("assistant", response)>>,
                           !.aliased = @ \ {r.id}]
            ELSE LET appended == history_append(h, r.id, IntakeAgent_reply(response))
                 IN  [appended EXCEPT
                         !.sessions[r.id].conversation = appended.intake[r.id],
                         !.aliased = @ \cup {r.id}]
    IN  Finished(replied, r.trace, FALSE, "none",
                 [Returned EXCEPT !.response = response, !.session_id = r.id,
                                  !.language = r.language,
                                  !.agent = IF r.language = "spanish" THEN "spanish"
                                            ELSE "intake"])

\* start_session when no other handler runs during its call: the step up to
\* the Role's generation call, then the step from its reply.
start_session(store, intake, session_id, initial_message, response) ==
    CHOOSE outcome \in
        {Outcome(returned.heap.sessions, returned.heap.intake, returned.trace,
                 returned.raised, returned.exc, returned.value) :
            returned \in
                {start_session_resume(entered.heap, "t1", response) :
                    entered \in
                        {start_session_enter(Heap(store, intake, {}, NoRequests), "t1",
                                             "start_session", session_id,
                                             initial_message)}}} : TRUE

----------------------------------------------------------------------------
\* LegalAgentOrchestrator.continue_session

escalate_keeps_status(session, handoff_check) == [session EXCEPT !.handoff = handoff_check]

\* orchestrator.py:144-145
escalate(session, handoff_check) ==
    [session EXCEPT !.handoff = handoff_check, !.status = "escalated"]

unknown_session_is_error(h, t, session_id, message) ==
    Finished([h EXCEPT !.requests[t] =
                 Entering(h, t, "continue_session", session_id, message)],
             <<>>, FALSE, "none", [Returned EXCEPT !.error = "Session not found"])

\* orchestrator.py:130-131
continue_unknown(h, t, session_id, message) ==
    start_session_enter(h, t, "continue_session", session_id, message)

turn_language_redetected(session, message) == _detect_language(message)

\* orchestrator.py:152: the Role of a turn is chosen by the stored language
turn_language(session, message) == session.language

\* orchestrator.py:127-163 with intake_agent.py:66-79 and
\* spanish_agent.py:61-67: the gate, which calls no service, and then the
\* turn up to the Role's generation call.  The intake Role has appended the
\* user turn to its history by then; the Spanish Role was handed
\* conversation + [user turn] and has changed nothing.
continue_session_enter(h, t, session_id, message) ==
    IF session_id \notin DOMAIN h.sessions
    THEN continue_unknown(h, t, session_id, message)
    ELSE
    LET session == h.sessions[session_id]
        gate_call == Call("handoff", session.lead_score, "absent", session)
        handoff_check == HandoffAgent_process(message, session.conversation,
                                              session.lead_score)
        entering == Entering(h, t, "continue_session", session_id, message)
    IN  IF handoff_check.raised
        THEN Finished([h EXCEPT !.requests[t] = entering],
                      <<gate_call>>, TRUE, handoff_check.exc, Returned)
        ELSE IF handoff_check.value.escalation_type = "immediate"
        THEN Finished([h EXCEPT
                         !.sessions = Put(h.sessions, session_id,
                                          escalate(session, handoff_check.value)),
                         !.requests[t] = [entering EXCEPT
                                             !.escalated = TRUE,
                                             !.handoff = handoff_check.value]],
                      <<gate_call>>, FALSE, "none",
                      [Returned EXCEPT !.response = handoff_check.value.client_message,
                                       !.escalated = TRUE, !.urgency = "immediate"])
        ELSE IF turn_language(session, message) = "spanish"
        THEN Waiting([h EXCEPT !.requests[t] =
                [entering EXCEPT
                    !.pc = "in_role", !.language = "spanish",
                    !.trace = <<gate_call, Call("spanish", JMissing, "absent", session)>>,
                    !.seen = session.conversation \o <<Turn("user", message)>>]])
        ELSE LET asked == history_append(h, session_id, <<Turn("user", message)>>)
             IN  Waiting([asked EXCEPT !.requests[t] =
                    [entering EXCEPT
                        !.pc = "in_role", !.language = "english",
                        !.trace = <<gate_call,
                                    Call("intake", JMissing, "absent", session)>>,
                        !.seen = asked.intake[session_id]]])

\* orchestrator.py:157-171 with intake_agent.py:81-101: the generation call
\* has returned.  The Spanish branch appends both turns to the list the
\* handler's session dict holds; the English branch binds that dict's
\* conversation to the intake Role's list.
continue_session_resume(h, t, response) ==
    LET r == h.requests[t]
        turns == <<Turn("user", r.message), Turn("assistant", response)>>
        replied ==
            IF r.language = "spanish"
            THEN IF (r.detached /\ r.own_list) \/ (~r.detached /\ r.id \in h.aliased)
                 THEN history_append(h, r.id, turns)
                 ELSE IF r.detached
                 THEN [h EXCEPT !.requests[t].session.conversation = @ \o turns]
                 ELSE [h EXCEPT !.sessions[r.id].conversation = @ \o turns]
            ELSE LET appended == history_append(h, r.id, IntakeAgent_reply(response))
                 IN  IF r.detached
                     THEN [appended EXCEPT
                             !.requests[t].session.conversation = appended.intake[r.id],
                             !.requests[t].own_list = TRUE]
                     ELSE [appended EXCEPT
                             !.sessions[r.id].conversation = appended.intake[r.id],
                             !.aliased = @ \cup {r.id}]
    IN  Finished(replied, r.trace, FALSE, "none",
                 [Returned EXCEPT !.response = response, !.session_id = r.id,
                                  !.message_count =
                                      Len(local_session(replied, t).conversation)])

----------------------------------------------------------------------------
\* Analysis Roles

\* ', '.join(key_factors) fails on None
Joinable(lead_score) ==
    DictGet(lead_score, "key_factors", JList(<<>>)).j \in {"list", "str"}

\* bool(lead_score) for a dict: it has at least one key
Truthy(lead_score) ==
    lead_score.err \/ \E k \in ScoreKeys : lead_score.f[k].j # "missing"

\* LeadScoringAgent.process: only json.JSONDecodeError is caught, so the
\* score_data.get of the log line raises for a JSON value that is no object.
LeadScoringAgent_process(text) ==
    LET parsed == parse_response(text)
    IN  IF ~parsed.ok THEN Ret(JObj(AllMissing, TRUE))
        ELSE IF parsed.value.j # "obj" THEN Raise("AttributeError")
        ELSE Ret(parsed.value)

\* the `try: ... json.loads ... except:` of research, follow-up and documents
parse_or_fallback(text) ==
    LET parsed == parse_response(text)
    IN  IF parsed.ok THEN parsed.value ELSE JFallback

\* ResearchAgent.process with research_type 'full', up to its generation
\* call: _build_case_context joins key_factors
ResearchAgent_request(lead_score) ==
    IF ~Joinable(lead_score) THEN Raise("TypeError") ELSE Ret("asked")

Step(stage, delay_hours, channel) ==
    [stage |-> stage, delay_hours |-> delay_hours, channel |-> channel]

generate_sequence_one_cadence(lead_score) ==
    <<Step(1, 24, "email"), Step(2, 72, "sms"), Step(3, 168, "email"), Step(4, 336, "email")>>

generate_sequence_missing_is_hot(lead_score) ==
    LET rating == DictGet(lead_score, "rating", JStr(rating_HOT))
    IN  IF IsStr(rating, rating_HOT)
        THEN <<Step(1, 1, "sms"), Step(2, 24, "email"),
               Step(3, 72, "sms"), Step(4, 168, "email")>>
        ELSE IF IsStr(rating, rating_WARM)
        THEN <<Step(1, 24, "email"), Step(2, 72, "sms"),
               Step(3, 168, "email"), Step(4, 336, "email")>>
        ELSE <<Step(1, 48, "email"), Step(2, 168, "email")>>

\* FollowupAgent.generate_sequence
generate_sequence(lead_score) ==
    LET rating == DictGet(lead_score, "rating", JStr(rating_WARM))
    IN  IF IsStr(rating, rating_HOT)
        THEN <<Step(1, 1, "sms"), Step(2, 24, "email"),
               Step(3, 72, "sms"), Step(4, 168, "email")>>
        ELSE IF IsStr(rating, rating_WARM)
        THEN <<Step(1, 24, "email"), Step(2, 72, "sms"),
               Step(3, 168, "email"), Step(4, 336, "email")>>
        ELSE <<Step(1, 48, "email"), Step(2, 168, "email")>>

\* FollowupAgent.process up to its generation call: _build_context joins
\* key_factors when the lead_score dict is not empty
FollowupAgent_request(lead_score) ==
    IF Truthy(lead_score) /\ ~Joinable(lead_score) THEN Raise("TypeError")
    ELSE Ret("asked")

\* DocumentCollectorAgent.process with action 'request_documents', up to its
\* generation call: the f-string of the prompt joins key_factors
DocumentCollectorAgent_request(lead_score) ==
    IF ~Joinable(lead_score) THEN Raise("TypeError") ELSE Ret("asked")

\* DocumentCollectorAgent._generate_document_request from the reply: the dict
\* {'document_request': ...} around the parsed reply or its fallback
DocumentCollectorAgent_reply(text) == [document_request |-> parse_or_fallback(text)]

\* LegalAgentOrchestrator._generate_summary raises TypeError when a field it
\* slices or formats with a width is None.
summary_raises(lead_score) ==
    \/ DictGet(lead_score, "rating", JStr(<<>>)).j # "str"
    \/ DictGet(lead_score, "case_type", JStr(<<>>)).j # "str"
    \/ DictGet(lead_score, "urgency", JStr(<<>>)).j # "str"
    \/ DictGet(lead_score, "estimated_value", JStr(<<>>)).j # "str"
    \/ DictGet(lead_score, "key_factors", JList(<<>>)).j \notin {"list", "str"}
    \/ DictGet(lead_score, "red_flags", JList(<<>>)).j \notin {"list", "str", "null"}
    \/ DictGet(lead_score, "recommended_action", JStr(<<>>)).j # "str"

----------------------------------------------------------------------------
\* LegalAgentOrchestrator.complete_intake
\*
\* A run in progress: the session dict the handler holds as it is now, the
\* handler's local results dict and follow-up sequence, the Role invocations
\* made, the generation call the run waits in ("none" when it waits in none),
\* and whether an exception has ended the run.

Run(session, results, calls, raised, exc) ==
    [session |-> session, results |-> results, trace |-> calls,
     raised |-> raised, exc |-> exc, at |-> "none", sequence |-> <<>>]

Called(run, call) == [run EXCEPT !.trace = Append(run.trace, call)]

Raised(run, exc) == [run EXCEPT !.raised = TRUE, !.exc = exc, !.at = "none"]

\* base_agent.py:35-42: the run waits in self.client.messages.create
Awaiting(run, call) == [run EXCEPT !.at = call]

\* orchestrator.py:197-200 with lead_scorer.py:67-85: the scorer is invoked and
\* makes its generation call
stage_score_call(run) ==
    Awaiting(Called(run, Call("lead_scorer", JMissing, "absent", run.session)),
             "in_scorer")

\* lead_scorer.py:87-101 and orchestrator.py:201-206: from the scorer's reply
stage_score(run, text) ==
    LET score_result == LeadScoringAgent_process(text)
    IN  IF score_result.raised THEN Raised(run, score_result.exc)
        ELSE [run EXCEPT
                !.session.lead_score = score_result.value,
                !.results.lead_score = score_result.value,
                !.results.keys = @ \cup {"lead_score"},
                !.session.agents_used = Append(@, "lead_scorer")]

\* orchestrator.py:208-216 with research_agent.py:94-152: the research Role is
\* invoked, builds its prompt and makes its generation call
stage_research_call(run) ==
    IF run.raised THEN run ELSE
    LET called == Called(run, Call("research", run.session.lead_score, "absent",
                                   run.session))
        asked == ResearchAgent_request(run.session.lead_score)
    IN  IF asked.raised THEN Raised(called, asked.exc)
        ELSE Awaiting(called, "in_research")

stage_research_unstored(run, text) ==
    IF run.raised THEN run ELSE
    [run EXCEPT
        !.results.research = parse_or_fallback(text),
        !.results.keys = @ \cup {"research"},
        !.session.agents_used = Append(@, "research")]

\* research_agent.py:154-165 and orchestrator.py:217-220: from the reply
stage_research(run, text) ==
    IF run.raised THEN run ELSE
    [run EXCEPT
        !.session.research = parse_or_fallback(text),
        !.results.research = parse_or_fallback(text),
        !.results.keys = @ \cup {"research"},
        !.session.agents_used = Append(@, "research")]

\* orchestrator.py:222-233; the handoff Role makes no generation call.  The
\* print of line 232 calls .get on route_to, which is None in the decision of
\* the last routing branch.
stage_handoff(run) ==
    IF run.raised THEN run ELSE
    LET called == Called(run, Call("handoff", run.session.lead_score, "absent",
                                   run.session))
        handoff_result == HandoffAgent_process(<<>>, run.session.conversation,
                                               run.session.lead_score)
    IN  IF handoff_result.raised THEN Raised(called, handoff_result.exc)
        ELSE LET stored == [called EXCEPT
                              !.session.handoff = handoff_result.value,
                              !.results.handoff = handoff_result.value,
                              !.results.keys = @ \cup {"handoff"},
                              !.session.agents_used = Append(@, "handoff")]
             IN  IF handoff_result.value.route_to = "None"
                 THEN Raised(stored, "AttributeError")
                 ELSE stored

\* orchestrator.py:235-249 with followup_agent.py:55-79: the sequence is
\* stored in the session and kept in a local, the follow-up Role is invoked,
\* builds its prompt and makes its generation call
stage_followup_call(run) ==
    IF run.raised THEN run ELSE
    LET sequence == generate_sequence(run.session.lead_score)
        planned == [run EXCEPT !.session.follow_up_sequence = sequence,
                               !.sequence = sequence]
        called == Called(planned, Call("followup", run.session.lead_score,
                                       IF sequence # <<>> THEN sequence[1].channel
                                       ELSE "email",
                                       planned.session))
        asked == FollowupAgent_request(run.session.lead_score)
    IN  IF asked.raised THEN Raised(called, asked.exc)
        ELSE Awaiting(called, "in_followup")

stage_followup_records_turn(run, text) ==
    IF run.raised THEN run ELSE
    [run EXCEPT
        !.results.sequence = run.sequence,
        !.results.first_message = parse_or_fallback(text),
        !.results.keys = @ \cup {"follow_up"},
        !.session.conversation = Append(@, Turn("assistant", reply_ok)),
        !.session.agents_used = Append(@, "followup")]

\* followup_agent.py:81-93 and orchestrator.py:250-255: from the reply
stage_followup(run, text) ==
    IF run.raised THEN run ELSE
    [run EXCEPT
        !.results.sequence = run.sequence,
        !.results.first_message = parse_or_fallback(text),
        !.results.keys = @ \cup {"follow_up"},
        !.session.agents_used = Append(@, "followup")]

\* orchestrator.py:257-263 with document_collector.py:87-122: the document
\* Role is invoked, builds its prompt and makes its generation call
stage_documents_call(run) ==
    IF run.raised THEN run ELSE
    LET called == Called(run, Call("document_collector", run.session.lead_score,
                                   "absent", run.session))
        asked == DocumentCollectorAgent_request(run.session.lead_score)
    IN  IF asked.raised THEN Raised(called, asked.exc)
        ELSE Awaiting(called, "in_documents")

\* document_collector.py:124-135 and orchestrator.py:264-267: from the reply
stage_documents(run, text) ==
    IF run.raised THEN run ELSE
    LET doc_result == DocumentCollectorAgent_reply(text)
    IN  [run EXCEPT
            !.session.documents_requested = doc_result.document_request,
            !.results.documents = doc_result,
            !.results.keys = @ \cup {"documents"},
            !.session.agents_used = Append(@, "document_collector")]

stage_scheduling_unless_cold(run) ==
    IF run.raised THEN run ELSE
    LET rating == DictGet(run.session.lead_score, "rating", JStr(rating_WARM))
    IN  IF ~IsStr(rating, rating_COLD)
        THEN [Called(run, Call("scheduler", run.session.lead_score, "absent",
                               run.session))
                EXCEPT !.results.scheduling = "suggested",
                       !.results.keys = @ \cup {"scheduling"},
                       !.session.agents_used = Append(@, "scheduler")]
        ELSE [run EXCEPT !.results.scheduling = "None",
                         !.results.keys = @ \cup {"scheduling"}]

\* orchestrator.py:269-283; SchedulerAgent._suggest_times makes no generation
\* call and does not fail.
stage_scheduling(run) ==
    IF run.raised THEN run ELSE
    LET rating == DictGet(run.session.lead_score, "rating", JStr(rating_WARM))
    IN  IF IsStr(rating, rating_HOT)
        THEN [Called(run, Call("scheduler", run.session.lead_score, "absent",
                               run.session))
                EXCEPT !.results.scheduling = "suggested",
                       !.results.keys = @ \cup {"scheduling"},
                       !.session.agents_used = Append(@, "scheduler")]
        ELSE [run EXCEPT !.results.scheduling = "None",
                         !.results.keys = @ \cup {"scheduling"}]

\* orchestrator.py:285-298
stage_finish(run) ==
    IF run.raised THEN run ELSE
    LET completed == [run EXCEPT !.session.status = "completed"]
    IN  IF summary_raises(run.session.lead_score) THEN Raised(completed, "TypeError")
        ELSE [completed EXCEPT
                !.results.keys = @ \cup {"session_summary", "handoff_summary"}]

\* The stages in the order of the method body, from the reply of the
\* generation call the run waited in to the next generation call, or to the
\* end of the method.
stages(run, text) ==
    LET replied == [run EXCEPT !.at = "none"]
    IN  IF run.at = "in_scorer"
        THEN stage_research_call(stage_score(replied, text))
        ELSE IF run.at = "in_research"
        THEN stage_followup_call(stage_handoff(stage_research(replied, text)))
        ELSE IF run.at = "in_followup"
        THEN stage_documents_call(stage_followup(replied, text))
        ELSE stage_finish(stage_scheduling(stage_documents(replied, text)))

complete_unknown_creates(store, session_id) == Put(store, session_id, NewSession("english"))

\* orchestrator.py:186-187: the store after complete_intake on an unknown id
complete_unknown(store, session_id) == store

\* The objects as a step of the run on thread t leaves them: the session dict
\* the handler holds has been mutated in place, results and sequence are the
\* handler's locals.  The step ends in a generation call, or ends the method.
run_step(h, t, run) ==
    LET r == [h.requests[t] EXCEPT !.pc = run.at, !.trace = run.trace,
                                   !.results = run.results,
                                   !.sequence = run.sequence]
        written == IF r.detached
                   THEN [h EXCEPT !.requests[t] = [r EXCEPT !.session = run.session]]
                   ELSE [h EXCEPT !.sessions = Put(h.sessions, r.id, run.session),
                                  !.requests[t] = r]
    IN  IF run.raised THEN Finished(written, run.trace, TRUE, run.exc, Returned)
        ELSE IF run.at = "none"
        THEN Finished(written, run.trace, FALSE, "none",
                      [Returned EXCEPT !.pipeline = run.results])
        ELSE Waiting(written)

\* orchestrator.py:186-200: up to the scorer's generation call
complete_intake_enter(h, t, session_id) ==
    LET entering == Entering(h, t, "complete_intake", session_id, <<>>)
    IN  IF session_id \notin DOMAIN h.sessions
        THEN Finished([h EXCEPT !.sessions = complete_unknown(h.sessions, session_id),
                                !.requests[t] = entering],
                      <<>>, FALSE, "none",
                      [Returned EXCEPT !.error = "Session not found"])
        ELSE run_step([h EXCEPT !.requests[t] = entering], t,
                      stage_score_call(
                          Run([h.sessions[session_id] EXCEPT !.status = "processing"],
                              EmptyResults, <<>>, FALSE, "none")))

\* orchestrator.py:200-298: a generation call of the run has returned and the
\* run goes on, on the session dict the handler holds, as that dict is by then.
complete_intake_resume(h, t, text) ==
    LET r == h.requests[t]
        run == [Run(local_session(h, t), r.results, r.trace, FALSE, "none")
                    EXCEPT !.at = r.pc, !.sequence = r.sequence]
    IN  run_step(h, t, stages(run, text))

\* The generation call the handler of a step's outcome waits in returns text.
complete_intake_next(outcome, text) ==
    IF outcome.done THEN outcome ELSE complete_intake_resume(outcome.heap, "t1", text)

\* complete_intake when no other handler runs during its call: the step up to
\* the scorer's generation call, then the steps from each reply.
complete_intake(store, intake, session_id, score_text, aux) ==
    CHOOSE outcome \in
        {Outcome(returned.heap.sessions, returned.heap.intake, returned.trace,
                 returned.raised, returned.exc, returned.value) :
            returned \in
                {complete_intake_next(documented, aux[3]) :
                    documented \in
                {complete_intake_next(researched, aux[2]) :
                    researched \in
                {complete_intake_next(scored, aux[1]) :
                    scored \in
                {complete_intake_next(entered, score_text) :
                    entered \in
                        {complete_intake_enter(Heap(store, intake, {}, NoRequests),
                                              "t1", session_id)}}}}}} : TRUE

----------------------------------------------------------------------------
\* LegalAgentOrchestrator.get_stats

\* orchestrator.py:45-54: the keys of self.agents, in insertion order
agent_names ==
    <<"intake", "spanish", "lead_scorer", "followup", "scheduler",
      "document_collector", "research", "handoff">>

\* scores.count(rating): s.get('lead_score', {}).get('rating') is None when the
\* key is absent from the lead_score dict
rated(store, rating) ==
    Cardinality({id \in DOMAIN store :
                    IsStr(DictGet(store[id].lead_score, "rating", JNull), rating)})

\* s.get('lead_score', {}) is None for a session that was never scored (the key
\* exists), and None.get raises.
get_stats(store, intake) ==
    IF \E id \in DOMAIN store : store[id].lead_score.j # "obj"
    THEN Outcome(store, intake, <<>>, TRUE, "AttributeError", Returned)
    ELSE Outcome(store, intake, <<>>, FALSE, "none",
                 [Returned EXCEPT !.stats =
                    [total_sessions |-> Cardinality(DOMAIN store),
                     active_sessions |->
                        Cardinality({id \in DOMAIN store : store[id].status = "active"}),
                     completed_sessions |->
                        Cardinality({id \in DOMAIN store : store[id].status = "completed"}),
                     hot |-> rated(store, rating_HOT),
                     warm |-> rated(store, rating_WARM),
                     cold |-> rated(store, rating_COLD),
                     agents_online |-> Len(agent_names),
                     agent_names |-> agent_names]])

----------------------------------------------------------------------------
\* The /complete-intake route of the application

\* The HTTP response: its status code, the keys of its JSON body, and the
\* values of the keys modelled.
Response(status, keys, success, error, lead_score, scheduling) ==
    [status |-> status, keys |-> keys, success |-> success, error |-> error,
     lead_score |-> lead_score, scheduling |-> scheduling]

\* app.py:92-119 applied to what orchestrator.complete_intake returned or
\* raised.  The body is built with result.get(key, default) for eight keys; the
\* 'error' key of the result is not read.
complete_intake_route(authenticated, outcome) ==
    IF ~authenticated
    THEN Response(401, {"error"}, FALSE, "Not authenticated", JMissing, "absent")
    ELSE IF outcome.raised
    THEN Response(500, {"error"}, FALSE, outcome.exc, JMissing, "absent")
    ELSE LET results == outcome.value.pipeline
         IN  Response(200,
                      {"success", "lead_score", "research", "handoff", "follow_up",
                       "documents", "scheduling", "summary", "handoff_summary"},
                      TRUE, "absent",
                      IF "lead_score" \in results.keys THEN results.lead_score
                      ELSE JObj(AllMissing, FALSE),
                      IF "scheduling" \in results.keys THEN results.scheduling
                      ELSE "None")

----------------------------------------------------------------------------
\* The orchestrator as a state machine: the steps of its request handlers.

NoCall == [op |-> "none", id |-> "none", message |-> <<>>, before |-> <<>>,
           intake_before |-> <<>>, generated |-> <<>>,
           raised |-> FALSE, exc |-> "none", value |-> Returned]

NoGate == [phase |-> "off", current_message |-> <<>>, conversation |-> <<>>,
           lead_score |-> JNull, check |-> NoEscalation, out |-> Ret(NoEscalation)]

NoClassifier == [phase |-> "off", text |-> <<>>, out |-> "none"]

\* No run_pipeline call under way.
NoPipe == [phase |-> "off"]

\* The scheduler, outside the specification that calls it.
NoScheduler == [phase |-> "off"]

Init ==
    /\ sessions = <<>>
    /\ intake_conversations = <<>>
    /\ aliased = {}
    /\ result = NoCall
    /\ trace = <<>>
    /\ ops = 0
    /\ gate = NoGate
    /\ classifier = NoClassifier
    /\ requests = NoRequests
    /\ pipe = NoPipe
    /\ scheduler = NoScheduler

Threads == {"t1", "t2"}

Suspended == {t \in Threads : requests[t].pc \in GenerationCalls}

TheHeap == Heap(sessions, intake_conversations, aliased, requests)

\* One step of the handler on thread t: the objects as the step leaves them.
\* A step that ends the call leaves in result the record of the call (its
\* arguments, the store when it was entered, the texts the generation service
\* returned to it, what it returned or raised) and in trace its Role
\* invocations; while a call is under way result holds no call.
Advance(t, generated, step) ==
    LET r == step.heap.requests[t]
    IN  /\ sessions' = step.heap.sessions
        /\ intake_conversations' = step.heap.intake
        /\ aliased' = step.heap.aliased
        /\ IF step.done
           THEN /\ requests' = [step.heap.requests EXCEPT ![t] =
                        [NoRequest EXCEPT
                            !.pc = "done", !.op = r.op, !.id = r.id,
                            !.message = r.message, !.seen = r.seen,
                            !.during = r.during, !.escalated = r.escalated,
                            !.handoff = r.handoff, !.response = step.value.response,
                            !.raised = step.raised, !.exc = step.exc]]
                /\ result' = [op |-> r.op, id |-> r.id, message |-> r.message,
                              before |-> r.before, intake_before |-> r.intake_before,
                              generated |-> generated,
                              raised |-> step.raised, exc |-> step.exc,
                              value |-> step.value]
                /\ trace' = step.trace
           ELSE /\ requests' = [step.heap.requests EXCEPT ![t].generated = generated]
                /\ result' = NoCall
                /\ trace' = <<>>
        /\ UNCHANGED <<gate, classifier, pipe, scheduler>>

\* A handler is entered: one more call.
EnterStart(t, id, m) ==
    /\ Advance(t, <<>>, start_session_enter(TheHeap, t, "start_session", id, m))
    /\ ops' = ops + 1

EnterContinue(t, id, m) ==
    /\ Advance(t, <<>>, continue_session_enter(TheHeap, t, id, m))
    /\ ops' = ops + 1

EnterComplete(t, id) ==
    /\ Advance(t, <<>>, complete_intake_enter(TheHeap, t, id))
    /\ ops' = ops + 1

\* The generation call of a conversational Role returns: its text, or the
\* "Error: ..." text BaseAgent.call_claude makes of an exception.
ResumeTurn(t) ==
    /\ requests[t].pc = "in_role"
    /\ \E g \in Generations :
          Advance(t, <<g>>,
                  IF requests[t].starts
                  THEN start_session_resume(TheHeap, t, call_claude(g))
                  ELSE continue_session_resume(TheHeap, t, call_claude(g)))
    /\ UNCHANGED ops

\* The texts the generation service returns to the Role of a pipeline run.
RunTexts(call) ==
    IF call = "in_scorer" THEN ScoreTexts
    ELSE IF call = "in_research" THEN {aux[1] : aux \in AuxTexts}
    ELSE IF call = "in_followup" THEN {aux[2] : aux \in AuxTexts}
    ELSE {aux[3] : aux \in AuxTexts}

\* A generation call of a pipeline run returns.
ResumeRun(t) ==
    /\ requests[t].pc \in GenerationCalls \ {"in_role"}
    /\ \E text \in RunTexts(requests[t].pc) :
          Advance(t, Append(requests[t].generated, text),
                  complete_intake_resume(TheHeap, t, text))
    /\ UNCHANGED ops

\* Thread t can take a request.
Free(t) == requests[t].pc \in {"idle", "done"} /\ ops < MaxOps

\* Requests served one after another: a handler is entered when the one
\* before it has returned.
StartSession ==
    \E id \in SessionIds, m \in Messages : Free("t1") /\ EnterStart("t1", id, m)

ContinueSession ==
    \E id \in SessionIds, m \in Messages : Free("t1") /\ EnterContinue("t1", id, m)

CompleteIntake ==
    \E id \in SessionIds : Free("t1") /\ EnterComplete("t1", id)

RoleReturns == ResumeTurn("t1")

StageReturns == ResumeRun("t1")

Next == StartSession \/ ContinueSession \/ CompleteIntake \/ RoleReturns \/ StageReturns

Spec == Init /\ [][Next]_vars

----------------------------------------------------------------------------
\* The same requests, with get_stats, IntakeAgent.reset_conversation and a
\* second thread that takes a request while the first handler is suspended.

\* A method that calls no service: entered and returned in one step.
get_stats_step(h, t) ==
    LET outcome == get_stats(h.sessions, h.intake)
    IN  Finished([h EXCEPT !.requests[t] = Entering(h, t, "get_stats", "none", <<>>)],
                 <<>>, outcome.raised, outcome.exc, outcome.value)

\* intake_agent.py:113-116: the id is bound to a new empty list; the sessions
\* and dicts that held the old list keep it.
reset_conversation(h, t, conversation_id) ==
    LET entering == Entering(h, t, "reset_conversation", conversation_id, <<>>)
    IN  IF conversation_id \notin DOMAIN h.intake
        THEN Finished([h EXCEPT !.requests[t] = entering], <<>>, FALSE, "none", Returned)
        ELSE Finished([h EXCEPT
                         !.intake = Put(h.intake, conversation_id, <<>>),
                         !.aliased = @ \ {conversation_id},
                         !.requests = [u \in DOMAIN h.requests |->
                              IF u = t THEN entering
                              ELSE IF h.requests[u].id = conversation_id
                              THEN [h.requests[u] EXCEPT !.own_list = FALSE]
                              ELSE h.requests[u]]],
                      <<>>, FALSE, "none", Returned)

GetStats ==
    /\ Free("t1")
    /\ Advance("t1", <<>>, get_stats_step(TheHeap, "t1"))
    /\ ops' = ops + 1

ResetConversation ==
    \E id \in SessionIds :
        /\ Free("t1")
        /\ Advance("t1", <<>>, reset_conversation(TheHeap, "t1", id))
        /\ ops' = ops + 1

\* The second thread takes a request while the first handler is suspended.
Overlapping == requests["t1"].pc \in GenerationCalls /\ Free("t2")

OverlapMessages == {msg_hit, msg_hola}

SecondStart ==
    \E id \in SessionIds, m \in OverlapMessages : Overlapping /\ EnterStart("t2", id, m)

SecondContinue ==
    \E id \in SessionIds, m \in OverlapMessages : Overlapping /\ EnterContinue("t2", id, m)

SecondComplete ==
    \E id \in SessionIds : Overlapping /\ EnterComplete("t2", id)

SecondReset ==
    \E id \in SessionIds :
        /\ Overlapping
        /\ Advance("t2", <<>>, reset_conversation(TheHeap, "t2", id))
        /\ ops' = ops + 1

SecondRoleReturns == ResumeTurn("t2")

SecondStageReturns == ResumeRun("t2")

StatsNext ==
    \/ StartSession \/ ContinueSession \/ CompleteIntake \/ RoleReturns \/ StageReturns
    \/ GetStats \/ ResetConversation
    \/ SecondStart \/ SecondContinue \/ SecondComplete \/ SecondReset
    \/ SecondRoleReturns \/ SecondStageReturns

StatsSpec == Init /\ [][StatsNext]_vars

----------------------------------------------------------------------------
\* Two requests for one session served on two threads: each thread takes one
\* request, a turn or a pipeline run, for the session "s1".

served_id == "s1"

ServeMessages == {msg_hit, msg_suicidal}

\* A store holding one session: started, and scored or not.
ServeInit ==
    /\ \E m \in {msg_hit, msg_hola}, scored \in BOOLEAN, t \in {text_hot, text_warm},
          aux \in AuxTexts :
          \E entered \in {start_session_enter(Heap(<<>>, <<>>, {}, NoRequests), "t1",
                                              "start_session", served_id, m)} :
          \E started \in {start_session_resume(entered.heap, "t1", reply_ok).heap} :
          \E run \in {complete_intake(started.sessions, started.intake, served_id,
                                      t, aux)} :
              /\ sessions = IF scored THEN run.sessions ELSE started.sessions
              /\ intake_conversations = started.intake
              /\ aliased = started.aliased
    /\ result = NoCall
    /\ trace = <<>>
    /\ ops = 0
    /\ gate = NoGate
    /\ classifier = NoClassifier
    /\ requests = NoRequests
    /\ pipe = NoPipe
    /\ scheduler = NoScheduler

\* Handlers are entered in the order the requests were submitted: t1, then t2.
Entered(t) ==
    /\ requests[t].pc = "idle"
    /\ t = "t2" => requests["t1"].pc # "idle"

ServeContinue ==
    \E t \in Threads, m \in ServeMessages : Entered(t) /\ EnterContinue(t, served_id, m)

ServeComplete ==
    \E t \in Threads : Entered(t) /\ EnterComplete(t, served_id)

ServeRoleReturns == \E t \in Threads : ResumeTurn(t)

ServeStageReturns == \E t \in Threads : ResumeRun(t)

ServeNext == ServeContinue \/ ServeComplete \/ ServeRoleReturns \/ ServeStageReturns

ServeSpec == ServeInit /\ [][ServeNext]_vars

----------------------------------------------------------------------------
\* HandoffAgent._check_immediate_escalation and HandoffAgent.process applied to
\* free inputs: any current message, any history of user and assistant turns,
\* any lead_score (None, a HOT object, a COLD object).

GateMessages == {<<>>, msg_hit, msg_suicidal, msg_being, msg_two, msg_child, msg_danger}
GateContents == {msg_hit, msg_suicidal, msg_threatened, reply_trigger}
GateTurns == {Turn(role, content) : role \in {"user", "assistant"}, content \in GateContents}
GateScores == {JNull, text_hot[3].value, text_cold[1].value}

RECURSIVE Histories(_)
Histories(n) ==
    IF n = 0 THEN {<<>>}
    ELSE Histories(n - 1)
           \cup {Append(h, t) : h \in {x \in Histories(n - 1) : Len(x) = n - 1},
                                t \in GateTurns}

GateInit ==
    /\ sessions = <<>>
    /\ intake_conversations = <<>>
    /\ result = NoCall
    /\ trace = <<>>
    /\ ops = 0
    /\ \E m \in GateMessages, h \in Histories(MaxHistory), s \in GateScores :
          gate = [phase |-> "input", current_message |-> m, conversation |-> h,
                  lead_score |-> s, check |-> NoEscalation,
                  out |-> Ret(NoEscalation)]
    /\ classifier = NoClassifier
    /\ requests = NoRequests
    /\ aliased = {}
    /\ pipe = NoPipe
    /\ scheduler = NoScheduler

GateCheck ==
    /\ gate.phase = "input"
    /\ gate' = [gate EXCEPT
                  !.phase = "done",
                  !.check = _check_immediate_escalation(gate.current_message,
                                                        gate.conversation),
                  !.out = HandoffAgent_process(gate.current_message, gate.conversation,
                                               gate.lead_score)]
    /\ UNCHANGED <<sessions, intake_conversations, result, trace, ops, classifier,
                   requests, aliased, pipe, scheduler>>

GateNext == GateCheck

GateSpec == GateInit /\ [][GateNext]_vars

----------------------------------------------------------------------------
\* LegalAgentOrchestrator._detect_language applied to free texts: up to
\* MaxWords words joined by single spaces.

word_hola == <<"h","o","l","a">>
word_HOLA == <<"H","O","L","A">>
word_DIAS == <<"D","Í","A","S">>  \* 'DÍAS'
word_tengo == <<"t","e","n","g","o">>
word_ayuda == <<"a","y","u","d","a">>
word_hit == <<"h","i","t">>
word_Nicholas == <<"N","i","c","h","o","l","a","s">>
word_por == <<"p","o","r">>
word_favor == <<"f","a","v","o","r">>

LangWords == {word_hola, word_HOLA, word_DIAS, word_tengo, word_ayuda, word_hit,
              word_Nicholas, word_por, word_favor}

RECURSIVE LangTexts(_)
LangTexts(n) ==
    IF n = 0 THEN {<<>>}
    ELSE IF n = 1 THEN LangTexts(0) \cup LangWords
    ELSE LangTexts(n - 1) \cup {t \o <<" ">> \o w : t \in LangTexts(n - 1) \ {<<>>},
                                                    w \in LangWords}

ClassifyInit ==
    /\ sessions = <<>>
    /\ intake_conversations = <<>>
    /\ result = NoCall
    /\ trace = <<>>
    /\ ops = 0
    /\ gate = NoGate
    /\ \E t \in LangTexts(MaxWords) :
          classifier = [phase |-> "input", text |-> t, out |-> "none"]
    /\ requests = NoRequests
    /\ aliased = {}
    /\ pipe = NoPipe
    /\ scheduler = NoScheduler

Classify ==
    /\ classifier.phase = "input"
    /\ classifier' = [classifier EXCEPT !.phase = "done",
                                        !.out = _detect_language(classifier.text)]
    /\ UNCHANGED <<sessions, intake_conversations, result, trace, ops, gate,
                   requests, aliased, pipe, scheduler>>

ClassifyNext == Classify

ClassifySpec == ClassifyInit /\ [][ClassifyNext]_vars

----------------------------------------------------------------------------
\* AgentOrchestrator (base_agent.py): run_pipeline, one step up to each point
\* where the loop hands over to an agent, and register_agent beside it.
\* A dict is a function from the keys it holds to their values.

AgentNames == {"scorer", "router", "ghost"}

EmptyDict == <<>>

DataKeys == {"rating", "route", "note"}

\* The input_data a caller passes
PipelineInputs ==
    {EmptyDict, [k \in {"note"} |-> "input"], [k \in {"rating", "note"} |-> "input"]}

\* The dicts an agent's process returns
AgentResults ==
    {EmptyDict, [k \in {"rating"} |-> "first"], [k \in {"rating", "route"} |-> "second"]}

\* The exceptions an agent's process raises (handoff_agent.py:153 on a
\* lead_score of None, handoff_agent.py:125 on a conversation of None)
AgentErrors == {"AttributeError", "TypeError"}

Pipelines(n) == UNION {[1..k -> AgentNames] : k \in 0..n}

merge_earlier_wins(current_data, agent_result) ==
    [k \in (DOMAIN current_data) \cup (DOMAIN agent_result) |->
        IF k \in DOMAIN current_data THEN current_data[k] ELSE agent_result[k]]

\* base_agent.py:83: {**current_data, **result}
merge(current_data, agent_result) ==
    [k \in (DOMAIN current_data) \cup (DOMAIN agent_result) |->
        IF k \in DOMAIN agent_result THEN agent_result[k] ELSE current_data[k]]

\* base_agent.py:59-62: self.agents[agent.name] = agent
register_agent(agents, name) == agents \cup {name}

\* base_agent.py:64-66: self.agents.get(name) is None for a name not registered
get_agent(agents, name) == IF name \in agents THEN name ELSE "None"

\* base_agent.py:73-77 and 84-85: the head of one iteration.  The name is looked
\* up in self.agents as they are now; an agent found is handed current_data
\* (`received`) and the loop waits for its process, a name not found is warned
\* about and passed over.  `found` records what each lookup returned.
pipeline_step(p) ==
    LET agent_name == p.pipeline[p.i]
        agent == get_agent(p.agents, agent_name)
    IN  IF agent # "None"
        THEN [p EXCEPT !.phase = "in_process",
                       !.found = Append(@, agent),
                       !.received = Append(@, p.current_data)]
        ELSE [p EXCEPT !.i = @ + 1,
                       !.found = Append(@, agent),
                       !.warnings = Append(@, agent_name)]

\* base_agent.py:77-83: process has returned; its result is appended and
\* merged over current_data, and the loop goes to the next name.
pipeline_result(p, agent_result) ==
    [p EXCEPT !.phase = "running",
              !.i = @ + 1,
              !.results = Append(@, [agent |-> p.pipeline[p.i], result |-> agent_result]),
              !.current_data = merge(p.current_data, agent_result)]

\* base_agent.py:70-71: run_pipeline is entered
PipeInit ==
    /\ sessions = <<>>
    /\ intake_conversations = <<>>
    /\ result = NoCall
    /\ trace = <<>>
    /\ ops = 0
    /\ gate = NoGate
    /\ classifier = NoClassifier
    /\ requests = NoRequests
    /\ aliased = {}
    /\ scheduler = NoScheduler
    /\ \E input_data \in PipelineInputs, pipeline \in Pipelines(MaxPipeline),
          agents \in SUBSET AgentNames :
          pipe = [phase |-> "running", input_data |-> input_data,
                  pipeline |-> pipeline, agents |-> agents, added |-> {}, i |-> 1,
                  current_data |-> input_data, results |-> <<>>,
                  received |-> <<>>, found |-> <<>>, warnings |-> <<>>,
                  exc |-> "None",
                  final_output |-> EmptyDict, pipeline_results |-> <<>>]

PipelineStep ==
    /\ pipe.phase = "running"
    /\ pipe.i <= Len(pipe.pipeline)
    /\ pipe' = pipeline_step(pipe)
    /\ UNCHANGED <<sessions, intake_conversations, result, trace, ops, gate,
                   classifier, requests, aliased, scheduler>>

\* base_agent.py:77: agent.process(current_data) returns a dict
ProcessReturns ==
    /\ pipe.phase = "in_process"
    /\ \E r \in AgentResults : pipe' = pipeline_result(pipe, r)
    /\ UNCHANGED <<sessions, intake_conversations, result, trace, ops, gate,
                   classifier, requests, aliased, scheduler>>

\* base_agent.py:77: agent.process(current_data) raises.  Nothing in
\* run_pipeline catches it: the call ends with the exception, returns nothing
\* and leaves the rest of the pipeline unvisited.
ProcessRaises ==
    /\ pipe.phase = "in_process"
    /\ \E e \in AgentErrors : pipe' = [pipe EXCEPT !.phase = "raised", !.exc = e]
    /\ UNCHANGED <<sessions, intake_conversations, result, trace, ops, gate,
                   classifier, requests, aliased, scheduler>>

\* base_agent.py:59-62: another caller registers an agent while the run is at
\* the head of an iteration or waiting for an agent (no lock).  A registration
\* before the run is in PipeInit's agents; one under a name already registered
\* leaves the set of names as it is.
RegisterAgent ==
    /\ pipe.phase \in {"running", "in_process"}
    /\ Cardinality(pipe.added) < MaxRegistrations
    /\ \E name \in AgentNames \ pipe.agents :
          pipe' = [pipe EXCEPT !.agents = register_agent(pipe.agents, name),
                               !.added = @ \cup {name}]
    /\ UNCHANGED <<sessions, intake_conversations, result, trace, ops, gate,
                   classifier, requests, aliased, scheduler>>

\* base_agent.py:87-90
PipelineReturn ==
    /\ pipe.phase = "running"
    /\ pipe.i > Len(pipe.pipeline)
    /\ pipe' = [pipe EXCEPT !.phase = "done",
                            !.final_output = pipe.current_data,
                            !.pipeline_results = pipe.results]
    /\ UNCHANGED <<sessions, intake_conversations, result, trace, ops, gate,
                   classifier, requests, aliased, scheduler>>

PipeNext ==
    \/ PipelineStep
    \/ ProcessReturns
    \/ ProcessRaises
    \/ RegisterAgent
    \/ PipelineReturn

PipeSpec == PipeInit /\ [][PipeNext]_vars

----------------------------------------------------------------------------
\* SchedulerAgent (scheduler_agent.py).  A slot's date is the number of its
\* business day and its time the hour h of the string 'h:00'.

\* scheduler_agent.py:89 and 98: the hours of the morning and afternoon slots
slot_hours == <<9, 10, 11, 13, 14, 15, 16>>

\* scheduler_agent.py:76-105 for the given number of business days
_generate_available_slots(days) ==
    [k \in 1..(days * Len(slot_hours)) |->
        [date |-> ((k - 1) \div Len(slot_hours)) + 1,
         time |-> slot_hours[((k - 1) % Len(slot_hours)) + 1],
         available |-> TRUE]]

\* seq[:n]
Take(seq, n) == SubSeq(seq, 1, IF Len(seq) < n THEN Len(seq) ELSE n)

IsAvailable(slot) == slot.available

open_slots_with_booked(slots) == slots

\* [s for s in self.available_slots if s['available']]
open_slots(slots) == SelectSeq(slots, IsAvailable)

\* What a scheduler call returns; keys a result does not have are <<>>, -1,
\* "absent" or FALSE.
NoSchedulerResult ==
    [available_slots |-> <<>>, urgency_note |-> "absent", total_available |-> -1,
     suggestion |-> "absent", slots |-> <<>>,
     success |-> FALSE, error |-> "absent", booked |-> FALSE,
     appointment |-> [date |-> 0, time |-> 0]]

\* scheduler_agent.py:108-126
_get_availability(slots, lead_score) ==
    LET rating == DictGet(lead_score, "rating", JStr(rating_WARM))
    IN  [NoSchedulerResult EXCEPT
            !.available_slots = IF IsStr(rating, rating_HOT)
                                THEN Take(open_slots(slots), 5)
                                ELSE Take(open_slots(slots), 10),
            !.urgency_note = IF IsStr(rating, rating_HOT) THEN "priority"
                             ELSE "standard",
            !.total_available = Len(open_slots(slots))]

\* scheduler_agent.py:128-156
_suggest_times(slots, lead_score) ==
    LET availability == _get_availability(slots, lead_score)
        suggested == Take(availability.available_slots, 3)
        rating == DictGet(lead_score, "rating", JStr(rating_WARM))
    IN  IF suggested = <<>>
        THEN [NoSchedulerResult EXCEPT !.suggestion = "fully booked", !.slots = <<>>]
        ELSE [NoSchedulerResult EXCEPT
                !.suggestion = IF IsStr(rating, rating_HOT) THEN "as soon as possible"
                               ELSE "a few times",
                !.slots = suggested]

\* The index of the first slot with the selected date and time, 0 if none
matching_slot(slots, selected_slot) ==
    LET matching == {i \in 1..Len(slots) : /\ slots[i].date = selected_slot.date
                                           /\ slots[i].time = selected_slot.time}
    IN  IF matching = {} THEN 0
        ELSE CHOOSE i \in matching : \A j \in matching : i <= j

\* scheduler_agent.py:158-204: the slots after the call, and what it returns
_book_appointment(slots, selected_slot) ==
    LET i == matching_slot(slots, selected_slot)
    IN  IF i # 0
        THEN [slots |-> [slots EXCEPT ![i].available = FALSE],
              out |-> [NoSchedulerResult EXCEPT
                          !.success = TRUE, !.booked = TRUE,
                          !.appointment = [date |-> slots[i].date,
                                           time |-> slots[i].time]]]
        ELSE [slots |-> slots,
              out |-> [NoSchedulerResult EXCEPT
                          !.error = "Selected slot is no longer available"]]

\* The selected_slot of a book request: a generated slot, or {} (date and time
\* None, here 0).
Selections ==
    {[date |-> s.date, time |-> s.time] :
        s \in {_generate_available_slots(MaxDays)[k] :
                  k \in 1..Len(_generate_available_slots(MaxDays))}}
    \cup {[date |-> 0, time |-> 0]}

\* The lead_score of a request: without a rating, and the HOT one.
SchedulerLeads ==
    {JObj(AllMissing, FALSE),
     Score(JStr(rating_HOT), JStr(ct_trucking), JList(<<kf_liability>>),
           JStr(val_high), JStr(urg_24h), JStr(act_call), JList(<<>>))}

\* The agent between two calls: it keeps only self.available_slots.
Idle(slots) ==
    [phase |-> "idle", available_slots |-> slots, action |-> "none",
     selected_slot |-> [date |-> 0, time |-> 0], lead_score |-> JNull,
     before |-> slots, out |-> NoSchedulerResult]

\* scheduler_agent.py:13-19: the agent as constructed
SchedulerInit ==
    /\ sessions = <<>>
    /\ intake_conversations = <<>>
    /\ result = NoCall
    /\ trace = <<>>
    /\ ops = 0
    /\ gate = NoGate
    /\ classifier = NoClassifier
    /\ requests = NoRequests
    /\ aliased = {}
    /\ pipe = NoPipe
    /\ scheduler = Idle(_generate_available_slots(MaxDays))

\* scheduler_agent.py:56-74: process dispatches on the action
Called_scheduler(action, selected_slot, lead_score, slots, out) ==
    /\ scheduler.phase = "idle"
    /\ scheduler' = [phase |-> "called", available_slots |-> slots, action |-> action,
                     selected_slot |-> selected_slot, lead_score |-> lead_score,
                     before |-> scheduler.available_slots, out |-> out]
    /\ UNCHANGED <<sessions, intake_conversations, result, trace, ops, gate,
                   classifier, requests, aliased, pipe>>

CheckAvailability ==
    \E lead_score \in SchedulerLeads :
        Called_scheduler("check_availability", [date |-> 0, time |-> 0], lead_score,
                         scheduler.available_slots,
                         _get_availability(scheduler.available_slots, lead_score))

Book ==
    \E selected_slot \in Selections :
        LET booked == _book_appointment(scheduler.available_slots, selected_slot)
        IN  Called_scheduler("book", selected_slot, JNull, booked.slots, booked.out)

SuggestTimes ==
    \E lead_score \in SchedulerLeads :
        Called_scheduler("suggest_times", [date |-> 0, time |-> 0], lead_score,
                         scheduler.available_slots,
                         _suggest_times(scheduler.available_slots, lead_score))

\* process has returned; nothing of the call but the slots stays in the agent
Return ==
    /\ scheduler.phase = "called"
    /\ scheduler' = Idle(scheduler.available_slots)
    /\ UNCHANGED <<sessions, intake_conversations, result, trace, ops, gate,
                   classifier, requests, aliased, pipe>>

SchedulerNext == CheckAvailability \/ Book \/ SuggestTimes \/ Return

SchedulerSpec == SchedulerInit /\ [][SchedulerNext]_vars

----------------------------------------------------------------------------
\* Vocabulary of the properties of the escalation check

\* A trigger phrase occurs in the text, in any letter case.
TriggerIn(text) ==
    \E i \in 1..Len(immediate_escalation_triggers) :
        Contains(immediate_escalation_triggers[i], lower(text))

\* The text the check scans: the current message, then each of the first n
\* turns of the history that has role user, each after one space, all lower-cased.
RECURSIVE ScannedUpTo(_, _, _)
ScannedUpTo(current_message, history, n) ==
    IF n = 0 THEN lower(current_message)
    ELSE ScannedUpTo(current_message, history, n - 1)
           \o (IF history[n].role = "user"
               THEN <<" ">> \o lower(history[n].content) ELSE <<>>)

ScannedText(current_message, history) ==
    ScannedUpTo(current_message, history, Len(history))

\* The triggers (as indices in the list) that occur in the scanned text.
TriggersScanned(current_message, history) ==
    {i \in 1..Len(immediate_escalation_triggers) :
        Contains(immediate_escalation_triggers[i], ScannedText(current_message, history))}

\* C7 as stated: when no trigger phrase occurs in the current message nor in
\* any single prior user message, the check does not escalate.
C7_NoTriggerInAnyMessage_NotImmediate ==
    (/\ gate.phase = "done"
     /\ ~TriggerIn(gate.current_message)
     /\ \A k \in 1..Len(gate.conversation) :
           gate.conversation[k].role = "user" => ~TriggerIn(gate.conversation[k].content))
    => /\ ~gate.check.escalation_needed
       /\ (gate.out.raised \/ gate.out.value.escalation_type # "immediate")

\* C7 amended: when no trigger phrase occurs in the scanned text (the current
\* message and the prior user messages, lower-cased and joined by single
\* spaces), the check returns escalation_needed false and process returns no
\* immediate decision; phrases in assistant turns do not count.
C7_NoTriggerInScannedText_NotImmediate ==
    (/\ gate.phase = "done"
     /\ TriggersScanned(gate.current_message, gate.conversation) = {})
    => /\ gate.check = NoEscalation
       /\ (gate.out.raised \/ gate.out.value.escalation_type # "immediate")

\* A check of a history whose only trigger phrase is in an assistant turn.
C7_Witness_AssistantTriggerIgnored ==
    /\ gate.phase = "done"
    /\ \E k \in 1..Len(gate.conversation) :
          /\ gate.conversation[k].role = "assistant"
          /\ TriggerIn(gate.conversation[k].content)
    /\ TriggersScanned(gate.current_message, gate.conversation) = {}
    /\ ~gate.check.escalation_needed
    /\ ~gate.out.raised
    /\ gate.out.value.escalation_type = "priority"

\* C8: when a trigger phrase occurs, in any letter case, in the current message
\* or in a prior user message, process returns (it does not raise) a decision
\* with escalation_type immediate and urgency immediate, whatever the lead_score.
C8_TriggerAnywhere_Immediate ==
    (/\ gate.phase = "done"
     /\ \/ TriggerIn(gate.current_message)
        \/ \E k \in 1..Len(gate.conversation) :
              /\ gate.conversation[k].role = "user"
              /\ TriggerIn(gate.conversation[k].content))
    => /\ gate.check.escalation_type = "immediate"
       /\ gate.check.urgency = "immediate"
       /\ ~gate.out.raised
       /\ gate.out.value = gate.check

\* An upper-case SUICIDAL in the current message, no lead_score, a history
\* without triggers: immediate.
C8_Witness_UpperCaseSuicidal ==
    /\ gate.phase = "done"
    /\ gate.current_message = msg_suicidal
    /\ \A k \in 1..Len(gate.conversation) : ~TriggerIn(gate.conversation[k].content)
    /\ gate.lead_score = JNull
    /\ ~gate.out.raised
    /\ gate.out.value.escalation_type = "immediate"
    /\ gate.out.value.urgency = "immediate"

\* C10: the reported trigger is the first one, in the order of the trigger
\* list, that occurs in the scanned text, and call_911 is true exactly when
\* that trigger is 'currently in danger' (1), 'child in danger' (7), 'domestic
\* violence' (8) or 'active crime' (9).
C10_ListOrderFirst_Call911 ==
    (/\ gate.phase = "done"
     /\ TriggersScanned(gate.current_message, gate.conversation) # {})
    => LET hits == TriggersScanned(gate.current_message, gate.conversation)
           first == CHOOSE i \in hits : \A k \in hits : i <= k
       IN  /\ gate.check.escalation_needed
           /\ gate.check.trigger = immediate_escalation_triggers[first]
           /\ gate.check.call_911 = (IF first \in {1, 7, 8, 9} THEN "True" ELSE "False")
           /\ gate.check.client_message = "serious_situation_script"

\* 'domestic violence Emergency': 'domestic violence' comes first in the text,
\* 'emergency' first in the list; 'emergency' is reported, without call_911.
C10_Witness_EmergencyBeforeDomesticViolence ==
    /\ gate.phase = "done"
    /\ gate.current_message = msg_two
    /\ TriggersScanned(gate.current_message, gate.conversation) = {4, 8}
    /\ gate.check.trigger = immediate_escalation_triggers[4]
    /\ gate.check.call_911 = "False"

----------------------------------------------------------------------------
\* Vocabulary of the properties of the orchestrator

\* The last call was `op` on an id the store held / did not hold before it.
OnKnown(op) == result.op = op /\ result.id \in DOMAIN result.before
OnUnknown(op) == result.op = op /\ result.id \notin DOMAIN result.before

ConversationalRoles == {"intake", "spanish"}

PipelineOrder ==
    <<"lead_scorer", "research", "handoff", "followup", "document_collector", "scheduler">>

\* The roles of the first n stages
RolesUpTo(n) == [k \in 1..n |-> PipelineOrder[k]]

\* C1 as stated: continue_session on an existing session, with a message and a
\* history in which the gate finds no trigger, returns and leaves the
\* conversation longer by exactly the user turn and the assistant reply.
C1_ContinueAppendsTwoTurns ==
    (/\ OnKnown("continue_session")
     /\ TriggersScanned(result.message, result.before[result.id].conversation) = {})
    => /\ ~result.raised
       /\ sessions[result.id].conversation =
             result.before[result.id].conversation
                \o <<Turn("user", result.message), Turn("assistant", result.value.response)>>

\* C2: when the gate returns IMMEDIATE for a continue_session on an existing
\* session, the status becomes escalated, the decision is stored in handoff, the
\* result is the gate's client message with escalated true and urgency
\* immediate, no conversational Role is invoked and the conversation (and
\* every other field and session) stays as it was.
C2_ImmediateEscalationPreempts ==
    (/\ OnKnown("continue_session")
     /\ TriggersScanned(result.message, result.before[result.id].conversation) # {})
    => LET was == result.before[result.id]
           now == sessions[result.id]
       IN  /\ ~result.raised
           /\ now.status = "escalated"
           /\ now.handoff.escalation_type = "immediate"
           /\ now.handoff.urgency = "immediate"
           /\ now.handoff.trigger \in {immediate_escalation_triggers[i] :
                   i \in TriggersScanned(result.message, was.conversation)}
           /\ result.value.response = now.handoff.client_message
           /\ result.value.response = "serious_situation_script"
           /\ result.value.escalated
           /\ result.value.urgency = "immediate"
           /\ \A k \in 1..Len(trace) : trace[k].role \notin ConversationalRoles
           /\ now.conversation = was.conversation
           /\ now = [was EXCEPT !.status = "escalated", !.handoff = now.handoff]
           /\ intake_conversations = result.intake_before
           /\ \A id \in DOMAIN result.before \ {result.id} : sessions[id] = result.before[id]

\* A continue_session with 'I feel SUICIDAL' on an active session of two turns.
C2_Witness_Escalated ==
    /\ OnKnown("continue_session")
    /\ result.message = msg_suicidal
    /\ result.before[result.id].status = "active"
    /\ Len(sessions[result.id].conversation) = 2
    /\ sessions[result.id].status = "escalated"
    /\ result.value.escalated

\* C5: complete_intake on an id the store does not hold returns the error
\* result, invokes no Role, and leaves the store and the Roles' histories as
\* they were (no session created, none changed).
C5_CompleteUnknownMutatesNothing ==
    OnUnknown("complete_intake")
    => /\ ~result.raised
       /\ result.value = [Returned EXCEPT !.error = "Session not found"]
       /\ trace = <<>>
       /\ sessions = result.before
       /\ intake_conversations = result.intake_before

\* complete_intake on an unknown id while another session exists.
C5_Witness_UnknownBesideKnown ==
    /\ OnUnknown("complete_intake")
    /\ result.before # <<>>
    /\ result.value.error = "Session not found"

\* C6: continue_session on an id the store does not hold reports no error and
\* leaves exactly the state, the Role invocation and the result of
\* start_session(id, message): a new active session whose conversation is the
\* message and the Role's reply.
C6_ContinueUnknownIsStart ==
    OnUnknown("continue_session")
    => LET expected == [language |-> _detect_language(result.message),
                        status |-> "active",
                        conversation |-> <<Turn("user", result.message),
                                           Turn("assistant", result.value.response)>>,
                        lead_score |-> JNull, research |-> JNull,
                        documents_requested |-> JList(<<>>), appointments |-> <<>>,
                        follow_up_sequence |-> <<>>, handoff |-> NoneDecision,
                        agents_used |-> <<result.value.agent>>]
           started == start_session(result.before, result.intake_before, result.id,
                                    result.message, result.value.response)
       IN  /\ ~result.raised
           /\ result.value.error = "absent"
           /\ ~result.value.escalated
           /\ result.value.session_id = result.id
           /\ result.value.language = expected.language
           /\ result.value.agent = (IF expected.language = "spanish" THEN "spanish"
                                    ELSE "intake")
           /\ sessions = Put(result.before, result.id, expected)
           /\ Len(trace) = 1 /\ trace[1].role = result.value.agent
           /\ sessions = started.sessions
           /\ intake_conversations = started.intake
           /\ trace = started.trace
           /\ result.value = started.value

\* continue_session with a Spanish message on an unknown id, beside another session.
C6_Witness_UnknownSpanish ==
    /\ OnUnknown("continue_session")
    /\ result.before # <<>>
    /\ result.message = msg_hola
    /\ sessions[result.id].language = "spanish"
    /\ Len(sessions[result.id].conversation) = 2

\* C9 as stated: on every turn (start_session and continue_session alike) a
\* message that contains a trigger phrase yields an immediate escalation and
\* no conversational Role is invoked.
C9_GateOnEveryTurn ==
    (/\ result.op \in {"start_session", "continue_session"}
     /\ TriggerIn(result.message))
    => /\ result.value.escalated
       /\ sessions[result.id].status = "escalated"
       /\ \A k \in 1..Len(trace) : trace[k].role \notin ConversationalRoles

\* C3: on a known session complete_intake invokes the Roles in the order
\* scorer, research, handoff, follow-up, document collector, scheduler, the
\* scheduler only for a HOT lead; at each invocation the session record already
\* holds what the stages before it produced; stages 2-6 are handed the
\* lead_score stage 1 produced in this run; and a run that returns leaves the
\* status completed.  (A run that raises stops after a prefix of this order.)
C3_StagesInOrder_OutputsStoredFirst ==
    OnKnown("complete_intake")
    => LET n == Len(trace)
           was == result.before[result.id]
           now == sessions[result.id]
           scored == LeadScoringAgent_process(result.generated[1])
       IN  /\ n \in 1..Len(PipelineOrder)
           /\ [k \in 1..n |-> trace[k].role] = RolesUpTo(n)
           /\ \A k \in 1..n :
                 /\ trace[k].session.status = "processing"
                 /\ trace[k].session.agents_used = was.agents_used \o RolesUpTo(k - 1)
           /\ \A k \in 2..n :
                 /\ ~scored.raised
                 /\ trace[k].lead_score = scored.value
                 /\ trace[k].session.lead_score = scored.value
           /\ \A k \in 3..n :
                 /\ trace[k].session.research.j # "null"
                 /\ trace[k].session.research = now.research
           /\ \A k \in 4..n :
                 /\ trace[k].session.handoff.escalation_type
                       \in {"immediate", "priority", "standard"}
                 /\ trace[k].session.handoff = now.handoff
                 /\ trace[k].session.follow_up_sequence = generate_sequence(scored.value)
                 /\ trace[k].session.follow_up_sequence = now.follow_up_sequence
           /\ n >= 4 => trace[4].channel = now.follow_up_sequence[1].channel
           /\ n = 6 => /\ trace[6].session.documents_requested = now.documents_requested
                       /\ IsStr(DictGet(scored.value, "rating", JStr(rating_WARM)), rating_HOT)
           /\ ~result.raised =>
                 /\ now.status = "completed"
                 /\ n >= 5
                 /\ n = 6 <=> IsStr(DictGet(scored.value, "rating", JStr(rating_WARM)),
                                    rating_HOT)
                 /\ now.agents_used = was.agents_used \o RolesUpTo(n)
                 /\ result.value.pipeline.lead_score = now.lead_score
                 /\ result.value.pipeline.research = now.research
                 /\ result.value.pipeline.handoff = now.handoff
                 /\ result.value.pipeline.sequence = now.follow_up_sequence
                 /\ result.value.pipeline.documents
                       = [document_request |-> now.documents_requested]

\* A run for a HOT lead that returns, all six Roles invoked.
C3_Witness_SixStagesCompleted ==
    /\ OnKnown("complete_intake")
    /\ ~result.raised
    /\ Len(trace) = 6
    /\ trace[6].role = "scheduler"
    /\ sessions[result.id].status = "completed"

\* C4 as stated: on a known session, whatever texts the generation service
\* returns, complete_intake does not raise, returns what the stages produced
\* and leaves the status completed.
C4_PipelineNeverRaises ==
    OnKnown("complete_intake")
    => /\ ~result.raised
       /\ "lead_score" \in result.value.pipeline.keys
       /\ sessions[result.id].status = "completed"

\* C11 as stated: every current message that contains the phrase 'in danger'
\* makes the escalation check return an immediate decision.
C11_InDangerEscalates ==
    (/\ gate.phase = "done"
     /\ Contains(<<"i","n"," ","d","a","n","g","e","r">>, lower(gate.current_message)))
    => /\ gate.check.escalation_needed
       /\ gate.check.escalation_type = "immediate"

\* The lead_score the scorer computed in the last complete_intake run.
ScoredInRun == LeadScoringAgent_process(result.generated[1])

\* The last call was a complete_intake run on a known session whose scorer
\* returned a lead_score with this rating.
RunRated(rating) ==
    /\ OnKnown("complete_intake")
    /\ ~ScoredInRun.raised
    /\ IsStr(DictGet(ScoredInRun.value, "rating", JMissing), rating)

\* C12 as stated: for a session whose computed rating is COLD, complete_intake
\* returns a result whose scheduling entry is set and marks the stage as
\* skipped (None in the code), and the scheduler is not invoked.
C12_ColdSchedulingSkipped ==
    RunRated(rating_COLD)
    => /\ ~result.raised
       /\ "scheduling" \in result.value.pipeline.keys
       /\ result.value.pipeline.scheduling = "None"
       /\ \A k \in 1..Len(trace) : trace[k].role # "scheduler"

\* The last complete_intake run stored a routing decision (its stage 3 got a
\* decision back from the handoff Role).
RoutedInRun ==
    /\ OnKnown("complete_intake")
    /\ Len(trace) >= 3
    /\ Len(sessions[result.id].agents_used)
          >= Len(result.before[result.id].agents_used) + 3

\* A priority indicator occurs in the lower-cased case_type or in a
\* lower-cased key factor of the lead_score.
IsPriorityLead(lead_score) ==
    LET case_type == lower(DictGet(lead_score, "case_type", JStr(<<>>)).s)
        key_factors == lower_items(DictGet(lead_score, "key_factors", JList(<<>>)))
    IN  \E n \in 1..Len(priority_indicators) :
           \/ Contains(priority_indicators[n], case_type)
           \/ \E k \in 1..Len(key_factors) : Contains(priority_indicators[n], key_factors[k])

\* The routing table: <<escalation_needed, tier, role, urgency>> for a
\* lead_score rated HOT, WARM or COLD.
RoutingTable(lead_score) ==
    LET rating == DictGet(lead_score, "rating", JMissing)
        value == DictGet(lead_score, "estimated_value", JMissing)
    IN  IF IsStr(rating, rating_HOT) /\ (IsPriorityLead(lead_score) \/ IsStr(value, val_high))
        THEN <<TRUE, "priority", "senior_partner", "same_day">>
        ELSE IF IsStr(rating, rating_HOT)
        THEN <<TRUE, "standard", "pi_associate", "same_day">>
        ELSE IF IsStr(rating, rating_WARM)
        THEN <<TRUE, "standard", "intake_coordinator", "24_hours">>
        ELSE <<FALSE, "none", "None", "standard">>

\* C13 as stated: whatever the transcript, the decision the routing stage of
\* complete_intake stores for a lead rated HOT, WARM or COLD is the row of the
\* routing table for that lead_score.
C13_RoutingFollowsTable ==
    (/\ RoutedInRun
     /\ \E r \in {rating_HOT, rating_WARM, rating_COLD} : RunRated(r))
    => LET decision == sessions[result.id].handoff
       IN  <<decision.escalation_needed, decision.escalation_type,
             decision.route_to, decision.urgency>> = RoutingTable(ScoredInRun.value)

\* The delays and the channels of a follow-up sequence, in order.
Delays(sequence) == [k \in 1..Len(sequence) |-> sequence[k].delay_hours]
Channels(sequence) == [k \in 1..Len(sequence) |-> sequence[k].channel]

\* C14: in a complete_intake run that reaches stage 4, the follow-up sequence
\* stored for the session is fixed by the rating: HOT gives delays 1, 24, 72,
\* 168 hours on sms, email, sms, email; WARM gives 24, 72, 168, 336 starting
\* with email; COLD gives 48, 168, both email; the steps are numbered 1..n.
\* The follow-up Role is invoked exactly once in the run, with the channel of
\* the first step.
C14_CadenceByRating ==
    (OnKnown("complete_intake") /\ Len(trace) >= 4)
    => LET sequence == sessions[result.id].follow_up_sequence
           drafts == {k \in 1..Len(trace) : trace[k].role = "followup"}
       IN  /\ \A k \in 1..Len(sequence) : sequence[k].stage = k
           /\ RunRated(rating_HOT) =>
                 /\ Delays(sequence) = <<1, 24, 72, 168>>
                 /\ Channels(sequence) = <<"sms", "email", "sms", "email">>
           /\ RunRated(rating_WARM) =>
                 /\ Delays(sequence) = <<24, 72, 168, 336>>
                 /\ Channels(sequence)[1] = "email"
           /\ RunRated(rating_COLD) =>
                 /\ Delays(sequence) = <<48, 168>>
                 /\ Channels(sequence) = <<"email", "email">>
           /\ drafts = {4}
           /\ trace[4].channel = sequence[1].channel
           /\ trace[4].session.follow_up_sequence = sequence
           /\ ~result.raised => result.value.pipeline.sequence = sequence

\* A run for a HOT lead whose first follow-up is drafted for sms.
C14_Witness_HotStartsWithSms ==
    /\ RunRated(rating_HOT)
    /\ Len(trace) >= 4
    /\ trace[4].role = "followup"
    /\ trace[4].channel = "sms"
    /\ Len(sessions[result.id].follow_up_sequence) = 4

\* The words of the Spanish word set that occur in the lower-cased text.
SpanishWordsIn(text) ==
    {spanish_words[i] : i \in {n \in 1..Len(spanish_words) :
                                  Contains(spanish_words[n], lower(text))}}

\* C15: the classifier answers spanish exactly when at least two distinct
\* words of the Spanish word set occur as substrings of the lower-cased input,
\* english otherwise, and it changes nothing but its answer.
C15_SpanishIffTwoDistinctWords ==
    classifier.phase = "done"
    => /\ classifier.out \in {"spanish", "english"}
       /\ classifier.out = "spanish" <=> Cardinality(SpanishWordsIn(classifier.text)) >= 2
       /\ sessions = <<>> /\ intake_conversations = <<>> /\ trace = <<>>

\* 'HOLA hola': one word of the set, twice; classified english.
C15_Witness_RepeatedWordIsEnglish ==
    /\ classifier.phase = "done"
    /\ classifier.text = word_HOLA \o <<" ">> \o word_hola
    /\ SpanishWordsIn(classifier.text) = {word_hola}
    /\ classifier.out = "english"

\* Status b is status a or a later one: active, then processing, then
\* completed; escalated comes after every other status and nothing comes after it.
StatusForward(a, b) ==
    \/ a = b
    \/ <<a, b>> \in {<<"active", "processing">>, <<"active", "completed">>,
                     <<"processing", "completed">>}
    \/ a # "escalated" /\ b = "escalated"

\* C16 as stated: a call on an id the store already holds leaves that
\* session's status where it was or moves it forward, and an escalated session
\* stays escalated.
C16_StatusOnlyMovesForward ==
    (result.op # "none" /\ result.id \in DOMAIN result.before)
    => StatusForward(result.before[result.id].status, sessions[result.id].status)

\* A field a later stage writes is populated in the session record.
LaterStagePopulated(session) ==
    \/ session.research # JNull
    \/ session.handoff # NoneDecision
    \/ session.follow_up_sequence # <<>>
    \/ session.documents_requested # JList(<<>>)
    \/ session.appointments # <<>>

\* C17 as stated: in every state, a session with research, handoff,
\* follow_up_sequence, documents.requested or appointments populated has its
\* lead_score populated; and after a complete_intake run whose scorer returned,
\* lead_score is what that scorer returned.
C17_LeadScoreBeforeLaterStages ==
    /\ \A id \in DOMAIN sessions :
          LaterStagePopulated(sessions[id]) => sessions[id].lead_score # JNull
    /\ (OnKnown("complete_intake") /\ ~ScoredInRun.raised)
          => sessions[result.id].lead_score = ScoredInRun.value

\* Sequence a is a prefix of sequence b.
IsPrefix(a, b) == Len(a) <= Len(b) /\ \A k \in 1..Len(a) : a[k] = b[k]

\* C18 as stated: a call on an id the store already holds leaves agents_used
\* with its previous value as a prefix.
C18_AgentsUsedAppendOnly ==
    (result.op # "none" /\ result.id \in DOMAIN result.before)
    => IsPrefix(result.before[result.id].agents_used, sessions[result.id].agents_used)

\* C19 as stated: a start_session or continue_session call leaves the message
\* it was given in the session's conversation as a new user turn, on every path
\* (the escalating one too), and no call removes or alters a turn stored before it.
C19_EveryUserMessageStored ==
    result.op # "none"
    => LET kept == IF result.id \in DOMAIN result.before
                   THEN result.before[result.id].conversation ELSE <<>>
       IN  /\ result.id \in DOMAIN sessions =>
                 IsPrefix(kept, sessions[result.id].conversation)
           /\ result.op \in {"start_session", "continue_session"} =>
                 /\ result.id \in DOMAIN sessions
                 /\ \E k \in (Len(kept) + 1)..Len(sessions[result.id].conversation) :
                       sessions[result.id].conversation[k] = Turn("user", result.message)

\* C20 as stated: when the generation call of a conversational turn fails,
\* the reply returned to the user and the assistant turn stored for it do not
\* hold the text of the failure.
C20_FailureReplyIsNotRawError ==
    (/\ result.op \in {"start_session", "continue_session"}
     /\ result.generated # <<>>
     /\ ~result.generated[1].ok)
    => LET conversation == sessions[result.id].conversation
       IN  /\ ~result.raised
           /\ ~Contains(result.generated[1].text, result.value.response)
           /\ conversation[Len(conversation)].role = "assistant"
           /\ ~Contains(result.generated[1].text, conversation[Len(conversation)].content)

\* C21 as stated: in every store state get_stats returns the number of
\* sessions, of active and of completed sessions, and of sessions rated HOT,
\* WARM and COLD, with the role names, and changes nothing.
C21_StatsCountSessions ==
    result.op = "get_stats"
    => LET stats == result.value.stats
           Count(P(_)) == Cardinality({id \in DOMAIN sessions : P(sessions[id])})
           IsActive(s) == s.status = "active"
           IsCompleted(s) == s.status = "completed"
           IsHot(s) == s.lead_score.j = "obj" /\ IsStr(s.lead_score.f.rating, rating_HOT)
           IsWarm(s) == s.lead_score.j = "obj" /\ IsStr(s.lead_score.f.rating, rating_WARM)
           IsCold(s) == s.lead_score.j = "obj" /\ IsStr(s.lead_score.f.rating, rating_COLD)
       IN  /\ ~result.raised
           /\ stats.total_sessions = Cardinality(DOMAIN sessions)
           /\ stats.active_sessions = Count(IsActive)
           /\ stats.completed_sessions = Count(IsCompleted)
           /\ stats.hot = Count(IsHot)
           /\ stats.warm = Count(IsWarm)
           /\ stats.cold = Count(IsCold)
           /\ Len(stats.agent_names) = 8
           /\ sessions = result.before
           /\ intake_conversations = result.intake_before

\* C22 as stated: on one session id no handler is entered (reads or writes the
\* session) while a complete_intake run is suspended in a Role call, and no
\* complete_intake run is entered while another handler is suspended; the
\* status and handoff set by a turn's escalation are not overwritten by a run
\* that was in progress when the turn escalated.
C22_OneOperationPerSession ==
    \A t \in Threads :
        /\ \A u \in requests[t].during :
              "complete_intake" \notin {requests[t].op, requests[u].op}
        /\ ( /\ requests[t].escalated
             /\ \E u \in requests[t].during : requests[u].op = "complete_intake" )
           => /\ sessions[served_id].status = "escalated"
              /\ sessions[served_id].handoff = requests[t].handoff

\* C23 as stated: two turns submitted as m1 then m2 leave user m1, reply 1,
\* user m2, reply 2 at the end of the conversation, and the Role call for m2
\* was made with the reply to m1 in its history.
C23_TurnsInSubmissionOrder ==
    LET first == requests["t1"]
        second == requests["t2"]
        c == sessions[served_id].conversation
        n == Len(c)
    IN  ( /\ first.pc = "done" /\ second.pc = "done"
          /\ first.op = "continue_session" /\ second.op = "continue_session"
          /\ ~first.raised /\ ~second.raised
          /\ ~first.escalated /\ ~second.escalated )
        => /\ n >= 4
           /\ SubSeq(c, n - 3, n) =
                <<Turn("user", first.message), Turn("assistant", first.response),
                  Turn("user", second.message), Turn("assistant", second.response)>>
           /\ second.seen = SubSeq(c, 1, n - 1)

\* C24: in every interleaving of handlers on two session ids, each step of a
\* start_session, continue_session or complete_intake call, from its entry
\* through every return of a generation call to its end, leaves the stored
\* session of every other id, and the intake Role's history of every other id,
\* exactly as it was, also while a handler on that other id is waiting.
C24_OtherSessionsUntouched ==
    [][LET stepped == IF result'.op # "none"
                      THEN [op |-> result'.op, id |-> result'.id]
                      ELSE LET t == CHOOSE t \in Threads : requests'[t].pc # requests[t].pc
                           IN  [op |-> requests'[t].op, id |-> requests'[t].id]
       IN  stepped.op \in {"start_session", "continue_session", "complete_intake"}
           => /\ \A other \in DOMAIN sessions \ {stepped.id} :
                    /\ other \in DOMAIN sessions'
                    /\ sessions'[other] = sessions[other]
              /\ \A other \in DOMAIN intake_conversations \ {stepped.id} :
                    /\ other \in DOMAIN intake_conversations'
                    /\ intake_conversations'[other] = intake_conversations[other]
              /\ DOMAIN sessions' \subseteq DOMAIN sessions \cup {stepped.id}
              /\ DOMAIN intake_conversations'
                    \subseteq DOMAIN intake_conversations \cup {stepped.id}]_vars

\* A call on one id has just ended, having changed its own stored session,
\* while a handler on another id, whose session is stored, waits in a
\* generation call it entered before.
C24_Witness_ChangedBesideAnother ==
    \E u \in Suspended :
        /\ result.op \in {"continue_session", "complete_intake"}
        /\ requests[u].op \in {"start_session", "continue_session", "complete_intake"}
        /\ requests[u].id # result.id
        /\ requests[u].id \in DOMAIN sessions
        /\ result.id \in DOMAIN result.before
        /\ sessions[result.id] # result.before[result.id]

\* C25: continue_session and complete_intake on an existing session leave its
\* language as it was stored, whatever the message is classified as, and a
\* conversational Role invoked by the call is the Role of the stored language.
C25_LanguageFixedAtCreation ==
    (OnKnown("continue_session") \/ OnKnown("complete_intake"))
    => LET stored == result.before[result.id].language
       IN  /\ sessions[result.id].language = stored
           /\ \A k \in 1..Len(trace) :
                 trace[k].role \in ConversationalRoles
                    => trace[k].role = IF stored = "spanish" THEN "spanish" ELSE "intake"

\* A turn whose message is classified as Spanish, on a session stored as
\* English, answered by the English intake Role.
C25_Witness_SpanishMessageEnglishSession ==
    /\ OnKnown("continue_session")
    /\ _detect_language(result.message) = "spanish"
    /\ result.before[result.id].language = "english"
    /\ \E k \in 1..Len(trace) : trace[k].role = "intake"
    /\ sessions[result.id].language = "english"

\* C26 as stated: after start_session(id, m), for an id new to the store or
\* already in it, the conversation is exactly the user turn m and the reply,
\* the call returns that reply, and the one Role invoked is the Role of the
\* language m is classified as.
C26_StartLeavesTwoTurns ==
    result.op = "start_session"
    => LET reply == call_claude(result.generated[1])
       IN  /\ ~result.raised
           /\ result.value.response = reply
           /\ sessions[result.id].conversation =
                <<Turn("user", result.message), Turn("assistant", reply)>>
           /\ Len(trace) = 1
           /\ trace[1].role = IF _detect_language(result.message) = "spanish"
                              THEN "spanish" ELSE "intake"

\* C27 as stated: the application's complete-intake request for a session id
\* that has no session is answered with a failure indication (an error status
\* or an error in the body), not with success and empty fields.
C27_RouteReportsUnknownSession ==
    OnUnknown("complete_intake")
    => LET response == complete_intake_route(TRUE, result)
       IN  /\ ~("success" \in response.keys /\ response.success)
           /\ response.status >= 400 \/ "error" \in response.keys

\* C28: a complete_intake run that returns has appended to agents_used exactly
\* lead_scorer, research, handoff, followup, document_collector, in that order,
\* and then scheduler if and only if the stored rating is the string HOT; in
\* every run with any other rating (or none) the scheduler is not invoked, and
\* the scheduling entry of a returned result is None.
C28_SchedulerOnlyForHot ==
    OnKnown("complete_intake")
    => LET was == result.before[result.id].agents_used
           now == sessions[result.id].agents_used
           hot == /\ sessions[result.id].lead_score.j = "obj"
                  /\ IsStr(DictGet(sessions[result.id].lead_score, "rating", JMissing),
                           rating_HOT)
           scheduled == \E k \in 1..Len(trace) : trace[k].role = "scheduler"
       IN  /\ scheduled => hot
           /\ ~result.raised
                => /\ now = was \o RolesUpTo(IF hot THEN 6 ELSE 5)
                   /\ scheduled <=> hot
                   /\ result.value.pipeline.scheduling =
                         IF hot THEN "suggested" ELSE "None"

\* A run that returns for a lead_score without a rating: five names appended,
\* no scheduler.
C28_Witness_NoRatingNoScheduler ==
    /\ OnKnown("complete_intake")
    /\ ~result.raised
    /\ DictGet(sessions[result.id].lead_score, "rating", JMissing) = JMissing
    /\ Len(trace) = 5
    /\ result.value.pipeline.scheduling = "None"

\* C29 as stated: every Role a call invokes for a session, the handoff Role
\* consulted as the gate of a turn included, has its name appended to the
\* session's agents_used: after the call the log is the log before it (empty
\* for a session start_session creates) followed by the names of the Roles
\* invoked, in order.
C29_AgentsUsedIsCompleteLog ==
    LET invoked == [k \in 1..Len(trace) |-> trace[k].role]
    IN  /\ (OnKnown("continue_session") \/ OnKnown("complete_intake"))
             => sessions[result.id].agents_used
                    = result.before[result.id].agents_used \o invoked
        /\ (result.op = "start_session" \/ OnUnknown("continue_session"))
             => sessions[result.id].agents_used = invoked

\* C30: complete_intake on an existing session, whether it returns or raises,
\* leaves the conversation with the same turns in the same order, and every
\* stage of the run is handed that same conversation.
C30_PipelineKeepsTranscript ==
    OnKnown("complete_intake")
    => /\ sessions[result.id].conversation = result.before[result.id].conversation
       /\ intake_conversations = result.intake_before
       /\ \A k \in 1..Len(trace) :
             trace[k].session.conversation = result.before[result.id].conversation

\* A run that got to its follow-up stage on a session with turns: it changed
\* the session record.
C30_Witness_RunOnTranscript ==
    /\ OnKnown("complete_intake")
    /\ Len(trace) >= 4
    /\ Len(sessions[result.id].conversation) >= 2
    /\ sessions[result.id] # result.before[result.id]

\* C31: run_pipeline skips a name that is not registered, with a warning, and
\* still runs every registered agent that follows it: when the call has ended,
\* every name after a skipped one that was registered when the call began has
\* had its process called, and a call that returned returns pipeline_results
\* naming exactly the agents its lookups found, in pipeline order, having
\* warned about exactly the names they did not find.
C31_UnregisteredSkipped ==
    /\ pipe.phase \in {"done", "raised"}
          => \A i, j \in 1..Len(pipe.pipeline) :
                (/\ i < j
                 /\ i <= Len(pipe.found)
                 /\ pipe.found[i] = "None"
                 /\ pipe.pipeline[j] \in pipe.agents \ pipe.added)
                => j <= Len(pipe.found)
    /\ pipe.phase = "done"
          => LET was_found(j) == pipe.found[j] # "None"
                 not_found(j) == pipe.found[j] = "None"
                 positions == [j \in 1..Len(pipe.pipeline) |-> j]
                 named(s) == [k \in 1..Len(s) |-> pipe.pipeline[s[k]]]
             IN  /\ Len(pipe.found) = Len(pipe.pipeline)
                 /\ [k \in 1..Len(pipe.pipeline_results) |-> pipe.pipeline_results[k].agent]
                       = named(SelectSeq(positions, was_found))
                 /\ pipe.warnings = named(SelectSeq(positions, not_found))

\* The input merged with the first n results, each result overriding what came
\* before it.
RECURSIVE MergedUpTo(_, _, _)
MergedUpTo(input_data, results, n) ==
    IF n = 0 THEN input_data
    ELSE LET earlier == MergedUpTo(input_data, results, n - 1)
             latest == results[n].result
         IN  [k \in (DOMAIN earlier) \cup (DOMAIN latest) |->
                 IF k \in DOMAIN latest THEN latest[k] ELSE earlier[k]]

\* C38: in run_pipeline the k-th invoked agent is called with the initial input
\* merged with the results of the agents invoked before it, a later result
\* overriding an earlier value of the same key, whatever is registered or
\* raised meanwhile; a run that returns returns as final_output that merge
\* after the last agent; and every key of the initial input is in final_output,
\* with its initial value unless some result holds the key.
C38_EachAgentGetsMergedData ==
    /\ Len(pipe.received)
          = Len(pipe.results) + (IF pipe.phase \in {"in_process", "raised"} THEN 1 ELSE 0)
    /\ \A k \in 1..Len(pipe.received) :
          pipe.received[k] = MergedUpTo(pipe.input_data, pipe.results, k - 1)
    /\ pipe.phase = "done"
          => /\ pipe.pipeline_results = pipe.results
             /\ pipe.final_output
                  = MergedUpTo(pipe.input_data, pipe.pipeline_results,
                               Len(pipe.pipeline_results))
             /\ \A key \in DOMAIN pipe.input_data :
                   /\ key \in DOMAIN pipe.final_output
                   /\ \/ pipe.final_output[key] = pipe.input_data[key]
                      \/ \E k \in 1..Len(pipe.pipeline_results) :
                            key \in DOMAIN pipe.pipeline_results[k].result

\* A run that returned in which a second result overrode the first one's value
\* of a key the input also held, while another input key came through
\* unchanged.
C38_Witness_LaterResultOverrides ==
    /\ pipe.phase = "done"
    /\ Len(pipe.pipeline_results) >= 2
    /\ "rating" \in DOMAIN pipe.input_data
    /\ "rating" \in DOMAIN pipe.pipeline_results[1].result
    /\ "rating" \in DOMAIN pipe.pipeline_results[2].result
    /\ pipe.pipeline_results[1].result["rating"] # pipe.pipeline_results[2].result["rating"]
    /\ pipe.final_output["rating"] = pipe.pipeline_results[2].result["rating"]
    /\ pipe.final_output["note"] = "input"

\* The indices of the slots that were available when the call was made
OpenBefore == {i \in 1..Len(scheduler.before) : scheduler.before[i].available}

\* C32: suggest_times returns at most 3 slots, each of them available, and
\* they are the first available slots in slot order; with no slot available
\* it returns no slot and the fully-booked apology.
C32_SuggestsEarliestOpenSlots ==
    scheduler.action = "suggest_times"
    => LET slots == scheduler.out.slots
           n == Len(slots)
       IN  /\ n <= 3
           /\ n = IF Cardinality(OpenBefore) < 3 THEN Cardinality(OpenBefore) ELSE 3
           /\ \A k \in 1..n :
                 \E i \in OpenBefore :
                    /\ Cardinality({j \in OpenBefore : j < i}) = k - 1
                    /\ slots[k] = scheduler.before[i]
                    /\ scheduler.available_slots[i].available
           /\ OpenBefore = {} => /\ slots = <<>>
                                 /\ scheduler.out.suggestion = "fully booked"
           /\ scheduler.available_slots = scheduler.before

\* A suggestion made with the first slot booked: three slots, none of them the
\* booked one.
C32_Witness_SkipsBookedSlot ==
    /\ scheduler.action = "suggest_times"
    /\ ~scheduler.before[1].available
    /\ Len(scheduler.out.slots) = 3
    /\ scheduler.out.slots[1] = scheduler.before[2]

\* C36 as stated: a book action that selects the date and time of a slot booked
\* before returns success false with the 'no longer available' error and
\* creates no appointment.
C36_SlotBookedAtMostOnce ==
    ( /\ scheduler.action = "book"
      /\ \E i \in 1..Len(scheduler.before) :
            /\ scheduler.before[i].date = scheduler.selected_slot.date
            /\ scheduler.before[i].time = scheduler.selected_slot.time
            /\ ~scheduler.before[i].available )
    => /\ ~scheduler.out.success
       /\ scheduler.out.error = "Selected slot is no longer available"
       /\ ~scheduler.out.booked

\* C33: in every state reached by start_session, continue_session and
\* complete_intake calls made one after the other (the state each call leaves
\* when it has returned or raised), the conversation of every session has even
\* length and alternates user, assistant, starting with a user turn.
C33_ConversationAlternates ==
    Suspended = {}
    => \A id \in DOMAIN sessions :
          LET conversation == sessions[id].conversation
          IN  /\ Len(conversation) % 2 = 0
              /\ \A k \in 1..Len(conversation) :
                    conversation[k].role = IF k % 2 = 1 THEN "user" ELSE "assistant"

\* A session with a second pair of turns, the last reply being the text
\* call_claude returns when the generation service fails.
C33_Witness_TwoPairsWithErrorReply ==
    /\ Suspended = {}
    /\ \E id \in DOMAIN sessions :
        /\ Len(sessions[id].conversation) >= 4
        /\ sessions[id].conversation[4] = Turn("assistant", call_claude(Failed(err_timeout)))

\* C34 as stated: a continue_session on a session that an earlier
\* continue_session left escalated returns escalated true again and invokes no
\* conversational Role, whatever its message.
C34_EscalationIsSticky ==
    ( /\ OnKnown("continue_session")
      /\ result.before[result.id].status = "escalated" )
    => /\ ~result.raised
       /\ result.value.escalated
       /\ \A k \in 1..Len(trace) : trace[k].role \notin ConversationalRoles

\* Some user turn of the conversation contains a trigger phrase.
StoredTrigger(conversation) ==
    \E k \in 1..Len(conversation) :
        /\ conversation[k].role = "user"
        /\ TriggerIn(conversation[k].content)

\* C35: when a user turn stored in the session's conversation contains a
\* trigger phrase, continue_session returns the immediate escalation whatever
\* its message, invokes no conversational Role and leaves the conversation as
\* it was.
C35_StoredTriggerAlwaysEscalates ==
    ( /\ OnKnown("continue_session")
      /\ StoredTrigger(result.before[result.id].conversation) )
    => /\ ~result.raised
       /\ result.value.escalated
       /\ result.value.urgency = "immediate"
       /\ sessions[result.id].status = "escalated"
       /\ sessions[result.id].handoff.escalation_type = "immediate"
       /\ sessions[result.id].conversation = result.before[result.id].conversation
       /\ \A k \in 1..Len(trace) : trace[k].role \notin ConversationalRoles

\* A turn whose own message has no trigger, escalated by the trigger in the
\* message the session was started with.
C35_Witness_EscalatedByStoredTurn ==
    /\ OnKnown("continue_session")
    /\ ~TriggerIn(result.message)
    /\ StoredTrigger(result.before[result.id].conversation)
    /\ result.value.escalated
    /\ Len(sessions[result.id].conversation) = 2

\* C37: in a complete_intake run that returns, on a conversation in which the
\* handoff Role's scan finds no trigger phrase, the three stages that branch on
\* the rating acted on the same rating: the scheduler was invoked exactly when
\* the follow-up sequence is the HOT cadence (first step after 1 hour by sms),
\* and that exactly when the routing urgency is same_day; a lead_score without
\* a rating got the WARM routing (24_hours), the WARM cadence and no scheduler.
C37_RatingGatedStagesAgree ==
    ( /\ OnKnown("complete_intake")
      /\ ~result.raised
      /\ TriggersScanned(<<>>, result.before[result.id].conversation) = {} )
    => LET now == sessions[result.id]
           scheduled == \E k \in 1..Len(trace) : trace[k].role = "scheduler"
           hot_cadence == /\ now.follow_up_sequence # <<>>
                          /\ now.follow_up_sequence[1].delay_hours = 1
                          /\ now.follow_up_sequence[1].channel = "sms"
           same_day == now.handoff.urgency = "same_day"
       IN  /\ scheduled <=> hot_cadence
           /\ hot_cadence <=> same_day
           /\ DictGet(now.lead_score, "rating", JMissing) = JMissing
                => /\ now.handoff.urgency = "24_hours"
                   /\ Delays(now.follow_up_sequence) = <<24, 72, 168, 336>>
                   /\ Channels(now.follow_up_sequence) = <<"email", "sms", "email", "email">>
                   /\ ~scheduled

\* A run that returned for a lead_score without a rating, routed as WARM.
C37_Witness_NoRatingRoutedAsWarm ==
    /\ OnKnown("complete_intake")
    /\ ~result.raised
    /\ TriggersScanned(<<>>, result.before[result.id].conversation) = {}
    /\ DictGet(sessions[result.id].lead_score, "rating", JMissing) = JMissing
    /\ sessions[result.id].handoff.urgency = "24_hours"
    /\ Len(sessions[result.id].follow_up_sequence) = 4

====
